---- MODULE Spec2Model ----
(***************************************************************************)
(* hyrax: the FAT file system server (src/fs/fat/src/lib.rs) over a        *)
(* byte-addressable data storage.  The storage is a disk image: a sequence *)
(* of bytes, byte address a held at storage[a + 1].  The last part models  *)
(* the supervisor's memory bookkeeping (src/supervisor/src/memory).        *)
(***************************************************************************)
EXTENDS Integers, Sequences, FiniteSets, TLC

VARIABLES
    storage,    \* the disk image behind the DataStorage
    fs,         \* the FileSystemServer's fields, set by new
    call,       \* the last call made on the server and its arguments
    ret,        \* what that call returned: result, caller's buffer, storage accesses
    lastWrite,  \* the last write that returned Ok with nothing written since
    nwrites,    \* the number of write calls made so far
    walker,     \* a ClusterChain: the cluster it was made with, and its field .1
    items,      \* the items that ClusterChain has yielded so far
    free,       \* SystemMemory.free: the free chunks, in the tree's key order
    pool,       \* SYSTEM_MEMORY_FREE_POOL: for each slot, whether it is Some
    live,       \* the number of pool objects the pool's caller still uses
    held,       \* the byte addresses of system memory its user has at the time
    mcall       \* the last call on the memory subsystem and what it returned

memory == <<free, pool, live, held, mcall>>

vars == <<storage, fs, call, ret, lastWrite, nwrites, walker, items, memory>>

(***************************************************************************)
(* Bounds of the model.                                                    *)
(***************************************************************************)
\* Longest cluster chain a fixture volume holds.
MaxChain == 3
\* Highest storage access of a call (1-based) that the fault injection fails.
MaxFail == 4
\* Write calls made on the server in one behaviour.
MaxWrites == 1
MaxFrags == 2
\* Fragments of the longest long name of the name-length fixtures.
MaxNameFrags == 7
\* Bytes of system memory the supervisor's bookkeeping is given (addresses
\* 0 .. MemSize - 1).
MemSize == 4

(***************************************************************************)
(* The memory subsystem after construction: ObjectPool::new leaves every  *)
(* slot None, SystemMemory::new leaves the tree of free chunks empty.      *)
(***************************************************************************)
\* The number of slots of an ObjectPool.
PoolSize == 32

\* ObjectPool::new: the slots, TRUE for Some and FALSE for None.
ObjectPoolNew == [slot \in 1..PoolSize |-> FALSE]

\* SystemMemory::new: the free chunks in key order, none yet.
SystemMemoryNew == <<>>

\* some: whether allocate was given Some(addr); value: the address in a
\* result of Some.
NoMemCall == [op |-> "none", some |-> FALSE, addr |-> 0, size |-> 0,
              result |-> "none", value |-> 0]

MemoryNew ==
    /\ free = SystemMemoryNew
    /\ pool = ObjectPoolNew
    /\ live = 0
    /\ held = {}
    /\ mcall = NoMemCall

(***************************************************************************)
(* Integer helpers: Rust's u8/u32/u64 operators on naturals.               *)
(***************************************************************************)
RECURSIVE Pow2(_)
Pow2(k) == IF k = 0 THEN 1 ELSE 2 * Pow2(k - 1)

\* a << k on u64; the values of the model stay far below 2^64, where bits
\* would be shifted out
Shl(a, k) == a * Pow2(k)

\* a >> k
Shr(a, k) == a \div Pow2(k)

RECURSIVE BitAnd(_, _)
BitAnd(a, b) ==
    IF a = 0 \/ b = 0 THEN 0
    ELSE (a % 2) * (b % 2) + 2 * BitAnd(a \div 2, b \div 2)

RECURSIVE BitOr(_, _)
BitOr(a, b) ==
    IF a = 0 THEN b
    ELSE IF b = 0 THEN a
    ELSE (IF a % 2 = 1 \/ b % 2 = 1 THEN 1 ELSE 0) + 2 * BitOr(a \div 2, b \div 2)

\* a length that is not clamped to the cluster
NoClamp(a, b) == a

Min(a, b) == IF a <= b THEN a ELSE b

\* zerocopy little_endian::U16 / U32 ::get over the bytes of a field
LE16(b) == b[1] + 256 * b[2]
LE32(b) == b[1] + 256 * b[2] + 65536 * b[3] + 16777216 * b[4]

\* the little-endian bytes of a value: n bytes
RECURSIVE ToLE(_, _)
ToLE(v, n) == IF n = 0 THEN <<>> ELSE <<v % 256>> \o ToLE(v \div 256, n - 1)

\* size_of::<DirEntry>()
DirEntrySize == 32
\* size_of::<u32>(), the size of a FAT entry
FatEntrySize == 4
\* the first cluster number that ends a chain (0xFFFFFF7)
ChainEndMin == 268435447

(***************************************************************************)
(* DataStorage: read and write either serve the whole request or fail.     *)
(* fails is the set of access numbers (1-based, per call) that the         *)
(* provider fails; an access outside the image fails too.                  *)
(***************************************************************************)
Access(kind, offset, len) == [kind |-> kind, offset |-> offset, len |-> len]

DsFails(st, offset, len, n, fails) ==
    n \in fails \/ offset + len > Len(st)

\* the bytes a successful read returns
DsBytes(st, offset, len) == [i \in 1..len |-> st[offset + i]]

\* the image after a successful write
DsStore(st, offset, bytes) ==
    LET n == Len(bytes)
    IN  [a \in 1..Len(st) |->
            IF a > offset /\ a <= offset + n THEN bytes[a - offset] ELSE st[a]]

(***************************************************************************)
(* DirEntry: the fields the server uses of the 32 bytes at a slot.         *)
(***************************************************************************)
\* dir_filesize is kept as its four little-endian bytes
DirEntryOf(b) ==
    [dir_name      |-> [i \in 1..11 |-> b[i]],
     dir_attr      |-> b[12],
     dir_fstclushi |-> LE16(<<b[21], b[22]>>),
     dir_fstcluslo |-> LE16(<<b[27], b[28]>>),
     dir_filesize  |-> <<b[29], b[30], b[31], b[32]>>]

FirstCluster(de) == BitOr(de.dir_fstcluslo, Shl(de.dir_fstclushi, 16))

(***************************************************************************)
(* ClusterChain::next.  entry is the walker's field .1, n the number of    *)
(* storage accesses the call has issued so far.  item.tag is "None",       *)
(* "Ok" (item.v the heap index) or "Err".                                  *)
(***************************************************************************)
\* a walker that stops one value late
ChainEndsAbove(entry) == entry <= 1 \/ entry > ChainEndMin

\* the test that ends the chain
ChainEnds(entry) == entry <= 1 \/ entry >= ChainEndMin

\* a walker that forgets its cluster when the read fails
EntryLost(entry) == 0

\* self.1 after the early return of a failed read: not assigned
EntryKept(entry) == entry

ClusterChainNext(st, f, entry, n, fails) ==
    IF ChainEnds(entry)
    THEN [item |-> [tag |-> "None", v |-> 0], entry |-> entry, acc |-> <<>>]
    ELSE LET off == f.fat_offset + entry * FatEntrySize
             acc == <<Access("read", off, FatEntrySize)>>
         IN  IF DsFails(st, off, FatEntrySize, n + 1, fails)
             THEN [item |-> [tag |-> "Err", v |-> 0], entry |-> EntryKept(entry),
                   acc |-> acc]
             ELSE [item |-> [tag |-> "Ok", v |-> entry - 2],
                   entry |-> LE32(DsBytes(st, off, FatEntrySize)),
                   acc |-> acc]

(***************************************************************************)
(* What a call on the server gives back: its result ("Ok", "Err_Storage",  *)
(* "Err_Index", "Err_Inconsistent", or "panic" for an abort), the caller's *)
(* buffer and the image afterwards, the storage accesses issued in order,  *)
(* and for stat the value returned and the records written.                *)
(***************************************************************************)
Ret(result, buffer, st, log) ==
    [result |-> result, buffer |-> buffer, storage |-> st, log |-> log,
     value |-> 0, records |-> <<>>]

\* buffer with the bytes b copied to positions pos+1 .. pos+Len(b)
Fill(buffer, pos, b) ==
    LET n == Len(b)
    IN  [i \in 1..Len(buffer) |->
            IF i > pos /\ i <= pos + n THEN b[i - pos] ELSE buffer[i]]

\* buffer[pos .. pos+n) as a sequence
Slice(buffer, pos, n) == [i \in 1..n |-> buffer[pos + i]]

\* a check of the directory bit alone
NotFileDirectoryOnly(dir_entry) == BitAnd(dir_entry.dir_attr, 16) # 0

\* read and write refuse a directory and a volume label
NotFile(dir_entry) == BitAnd(dir_entry.dir_attr, 24) # 0

(***************************************************************************)
(* Iterator::skip(k) over a ClusterChain, first call of next: Skip::next   *)
(* takes k and calls nth(k), that is advance_by(k) and then next.          *)
(* advance_by calls next k times and drops every item it gets, stopping    *)
(* at None.                                                                *)
(***************************************************************************)
RECURSIVE AdvanceBy(_, _, _, _, _, _)
AdvanceBy(st, f, entry, log, k, fails) ==
    IF k = 0 THEN [ended |-> FALSE, entry |-> entry, log |-> log]
    ELSE LET r == ClusterChainNext(st, f, entry, Len(log), fails)
         IN  IF r.item.tag = "None"
             THEN [ended |-> TRUE, entry |-> r.entry, log |-> log]
             ELSE AdvanceBy(st, f, r.entry, log \o r.acc, k - 1, fails)

SkipNext(st, f, entry, log, k, fails) ==
    LET a == AdvanceBy(st, f, entry, log, k, fails)
    IN  IF a.ended
        THEN [item |-> [tag |-> "None", v |-> 0], entry |-> a.entry, log |-> a.log]
        ELSE LET r == ClusterChainNext(st, f, a.entry, Len(a.log), fails)
             IN  [item |-> r.item, entry |-> r.entry, log |-> a.log \o r.acc]

\* a walk that takes nothing from the buffer
NoChunk(f, left) == 0

\* a loop that hands the rest of the buffer to one cluster
WholeRest(f, left) == left

\* the length of the next item of buffer.chunks(1 << log2) when left bytes
\* of the buffer have not been handed out
ChunkLen(f, left) == Min(Pow2(f.bytes_per_cluster_log2), left)

(***************************************************************************)
(* FileSystemServer::read                                                  *)
(***************************************************************************)
\* the for loop over cluster_chain.zip(buffer.chunks_mut(1 << log2)):
\* Zip::next asks the chain first, then the chunks.
RECURSIVE ReadChunks(_, _, _, _, _, _, _)
ReadChunks(st, f, entry, log, buffer, pos, fails) ==
    LET r    == ClusterChainNext(st, f, entry, Len(log), fails)
        log1 == log \o r.acc
    IN  IF r.item.tag = "None" THEN Ret("Ok", buffer, st, log1)
        ELSE IF pos >= Len(buffer) THEN Ret("Ok", buffer, st, log1)
        ELSE IF r.item.tag = "Err" THEN Ret("Err_Storage", buffer, st, log1)
        ELSE LET n    == ChunkLen(f, Len(buffer) - pos)
                 off  == f.cluster_heap_offset + Shl(r.item.v, f.bytes_per_cluster_log2)
                 log2 == Append(log1, Access("read", off, n))
             IN  IF DsFails(st, off, n, Len(log2), fails)
                 THEN Ret("Err_Storage", buffer, st, log2)
                 ELSE ReadChunks(st, f, r.entry, log2,
                                 Fill(buffer, pos, DsBytes(st, off, n)), pos + n, fails)

\* the offset inside the first retained cluster
ClusterOffset(f, offset) == BitAnd(offset, Shl(1, f.bytes_per_cluster_log2))

\* the access to the first retained cluster, and then the loop
ReadFirst(st, f, first, offset, buffer, fails) ==
    IF first.item.tag = "None"
    THEN ReadChunks(st, f, first.entry, first.log, buffer, 0, fails)
    ELSE IF first.item.tag = "Err" THEN Ret("Err_Storage", buffer, st, first.log)
    ELSE LET off0       == ClusterOffset(f, offset)
             buffer_end == Min(Len(buffer), Pow2(f.bytes_per_cluster_log2) - off0)
             off        == f.cluster_heap_offset
                           + Shl(first.item.v, f.bytes_per_cluster_log2) + off0
             log1       == Append(first.log, Access("read", off, buffer_end))
         IN  IF DsFails(st, off, buffer_end, Len(log1), fails)
             THEN Ret("Err_Storage", buffer, st, log1)
             ELSE ReadChunks(st, f, first.entry, log1,
                             Fill(buffer, 0, DsBytes(st, off, buffer_end)),
                             buffer_end, fails)

read(st, f, index, offset, buffer, fails) ==
    LET eoff == f.cluster_heap_offset + index * DirEntrySize
        log0 == <<Access("read", eoff, DirEntrySize)>>
    IN  IF DsFails(st, eoff, DirEntrySize, 1, fails)
        THEN Ret("Err_Storage", buffer, st, log0)
        ELSE LET dir_entry == DirEntryOf(DsBytes(st, eoff, DirEntrySize))
             IN  IF NotFile(dir_entry)
                 THEN Ret("Err_Index", buffer, st, log0)
                 ELSE ReadFirst(st, f,
                          SkipNext(st, f, FirstCluster(dir_entry), log0,
                                   Shr(offset, f.bytes_per_cluster_log2), fails),
                          offset, buffer, fails)

(***************************************************************************)
(* FileSystemServer::write                                                 *)
(***************************************************************************)
RECURSIVE WriteChunks(_, _, _, _, _, _, _)
WriteChunks(st, f, entry, log, buffer, pos, fails) ==
    LET r    == ClusterChainNext(st, f, entry, Len(log), fails)
        log1 == log \o r.acc
    IN  IF r.item.tag = "None" THEN Ret("Ok", buffer, st, log1)
        ELSE IF pos >= Len(buffer) THEN Ret("Ok", buffer, st, log1)
        ELSE IF r.item.tag = "Err" THEN Ret("Err_Storage", buffer, st, log1)
        ELSE LET n    == ChunkLen(f, Len(buffer) - pos)
                 off  == f.cluster_heap_offset + Shl(r.item.v, f.bytes_per_cluster_log2)
                 log2 == Append(log1, Access("write", off, n))
             IN  IF DsFails(st, off, n, Len(log2), fails)
                 THEN Ret("Err_Storage", buffer, st, log2)
                 ELSE WriteChunks(DsStore(st, off, Slice(buffer, pos, n)), f, r.entry,
                                  log2, buffer, pos + n, fails)

WriteFirst(st, f, first, offset, buffer, fails) ==
    IF first.item.tag = "None"
    THEN WriteChunks(st, f, first.entry, first.log, buffer, 0, fails)
    ELSE IF first.item.tag = "Err" THEN Ret("Err_Storage", buffer, st, first.log)
    ELSE LET off0       == ClusterOffset(f, offset)
             buffer_end == Min(Len(buffer), Pow2(f.bytes_per_cluster_log2) - off0)
             off        == f.cluster_heap_offset
                           + Shl(first.item.v, f.bytes_per_cluster_log2) + off0
             log1       == Append(first.log, Access("write", off, buffer_end))
         IN  IF DsFails(st, off, buffer_end, Len(log1), fails)
             THEN Ret("Err_Storage", buffer, st, log1)
             ELSE WriteChunks(DsStore(st, off, Slice(buffer, 0, buffer_end)), f,
                              first.entry, log1, buffer, buffer_end, fails)

write(st, f, index, offset, buffer, fails) ==
    LET eoff == f.cluster_heap_offset + index * DirEntrySize
        log0 == <<Access("read", eoff, DirEntrySize)>>
    IN  IF DsFails(st, eoff, DirEntrySize, 1, fails)
        THEN Ret("Err_Storage", buffer, st, log0)
        ELSE LET dir_entry == DirEntryOf(DsBytes(st, eoff, DirEntrySize))
             IN  IF NotFile(dir_entry)
                 THEN Ret("Err_Index", buffer, st, log0)
                 ELSE WriteFirst(st, f,
                          SkipNext(st, f, FirstCluster(dir_entry), log0,
                                   Shr(offset, f.bytes_per_cluster_log2), fails),
                          offset, buffer, fails)

(***************************************************************************)
(* FileSystemServer::stat                                                  *)
(*                                                                         *)
(* The caller's buffer is taken to start at an 8-byte aligned address.     *)
(* Entry is index: u64 at 0, data_length: u64 at 8, name_length: u8 at 16  *)
(* and name: [u8] from 17 to the end of the bytes it is cast from.         *)
(***************************************************************************)
\* offset_of!(Entry, name_length)
NameLengthOffset == 16
\* offset of Entry::name
NameOffset == 17
\* align_of::<u64>()
EntryAlign == 8
\* the attribute byte of a long-name entry
AttrLongName == 15

\* Entry::try_mut_from_bytes(buffer) succeeds on rem bytes: the bytes must
\* be a whole Entry, header and name, with no byte left over
EntryCastOk(rem) == rem % EntryAlign = 0 /\ rem >= NameOffset

\* usize::next_multiple_of
next_multiple_of(a, b) == IF a % b = 0 THEN a ELSE a + (b - (a % b))

\* the iterator offsets: the walker's cluster number, and the range of
\* the cluster being flattened (next .. end, in steps of a DirEntry)
NoOffsets(first_cluster) == [entry |-> first_cluster, next |-> 0, end |-> 0]

\* offsets.next(): tag "Some" with the offset v, "None", or "panic" when
\* the closure unwraps a failed FAT lookup
RECURSIVE OffsetsNext(_, _, _, _, _)
OffsetsNext(st, f, it, log, fails) ==
    IF it.next < it.end
    THEN [tag |-> "Some", v |-> it.next,
          it |-> [it EXCEPT !.next = it.next + DirEntrySize], log |-> log]
    ELSE LET r == ClusterChainNext(st, f, it.entry, Len(log), fails)
         IN  IF r.item.tag = "None"
             THEN [tag |-> "None", v |-> 0, it |-> it, log |-> log]
             ELSE IF r.item.tag = "Err"
             THEN [tag |-> "panic", v |-> 0, it |-> it, log |-> log \o r.acc]
             ELSE LET offset == Shl(r.item.v, f.bytes_per_cluster_log2)
                  IN  OffsetsNext(st, f,
                          [entry |-> r.entry, next |-> offset,
                           end |-> Shl(offset + 1, f.bytes_per_cluster_log2)],
                          log \o r.acc, fails)

\* the 13 code units of a long-name entry: ldir_name1, ldir_name2, ldir_name3
LongNameUnits(b) ==
    [i \in 1..13 |->
        IF i <= 5 THEN LE16(<<b[2 * i], b[2 * i + 1]>>)
        ELSE IF i <= 11 THEN LE16(<<b[2 * i + 3], b[2 * i + 4]>>)
        ELSE LE16(<<b[2 * i + 5], b[2 * i + 6]>>)]

Reverse(q) == [i \in 1..Len(q) |-> q[Len(q) + 1 - i]]

\* skip_while(|c| c == 0x20)
RECURSIVE SkipSpaces(_)
SkipSpaces(q) == IF Len(q) > 0 /\ q[1] = 32 THEN SkipSpaces(Tail(q)) ELSE q

\* skip_while(|c| c == 0x0000 || c == 0xFFFF)
RECURSIVE SkipFiller(_)
SkipFiller(q) ==
    IF Len(q) > 0 /\ (q[1] = 0 \/ q[1] = 65535) THEN SkipFiller(Tail(q)) ELSE q

IsSurrogate(u) == u >= 55296 /\ u <= 57343
IsLowSurrogate(u) == u >= 56320 /\ u <= 57343

\* char::decode_utf16 over a sequence of code units: the decoded items, each
\* a code point or -1 for an Err (an unpaired surrogate)
RECURSIVE decode_utf16(_)
decode_utf16(q) ==
    IF Len(q) = 0 THEN <<>>
    ELSE IF ~IsSurrogate(q[1]) THEN <<q[1]>> \o decode_utf16(Tail(q))
    ELSE IF IsLowSurrogate(q[1]) THEN <<-1>> \o decode_utf16(Tail(q))
    ELSE IF Len(q) = 1 THEN <<-1>>
    ELSE IF ~IsLowSurrogate(q[2]) THEN <<-1>> \o decode_utf16(Tail(q))
    ELSE <<65536 + (q[1] - 55296) * 1024 + (q[2] - 56320)>>
         \o decode_utf16(Tail(Tail(q)))

\* char::len_utf8
len_utf8(c) == IF c < 128 THEN 1 ELSE IF c < 2048 THEN 2 ELSE IF c < 65536 THEN 3 ELSE 4

\* the bytes char::encode_utf8 writes
encode_utf8(c) ==
    IF c < 128 THEN <<c>>
    ELSE IF c < 2048 THEN <<192 + (c \div 64), 128 + (c % 64)>>
    ELSE IF c < 65536
    THEN <<224 + (c \div 4096), 128 + ((c \div 64) % 64), 128 + (c % 64)>>
    ELSE <<240 + (c \div 262144), 128 + ((c \div 4096) % 64),
           128 + ((c \div 64) % 64), 128 + (c % 64)>>

\* The Entry being filled: the bytes of the caller's buffer, the place pos
\* where the Entry starts in it, its name_length, whether filling it has
\* aborted, and whether the build checks integer overflow.
\* name[name_length] = c after name_length += 1 (short names)
PushByte(e, c) ==
    IF e.panic THEN e
    ELSE IF e.name_length + 1 >= Len(e.buffer) - e.pos - NameOffset
    THEN [e EXCEPT !.panic = TRUE, !.name_length = e.name_length + 1]
    ELSE [e EXCEPT !.name_length = e.name_length + 1,
                   !.buffer = Fill(e.buffer,
                                   e.pos + NameOffset + e.name_length + 1, <<c>>)]

RECURSIVE PushBytes(_, _)
PushBytes(e, q) ==
    IF Len(q) = 0 THEN e ELSE PushBytes(PushByte(e, q[1]), Tail(q))

\* name_length += len in u8: the sum modulo 256
WrappedSum(name_length, len) == (name_length + len) % 256

\* c.unwrap(); c.encode_utf8(&mut name[name_length..]); name_length += len.
\* name_length is a u8: a sum above 255 aborts in a build with overflow
\* checks and wraps in a build without.
PushChar(e, c) ==
    IF e.panic THEN e
    ELSE IF c < 0 THEN [e EXCEPT !.panic = TRUE]
    ELSE IF len_utf8(c) > Len(e.buffer) - e.pos - NameOffset - e.name_length
    THEN [e EXCEPT !.panic = TRUE]
    ELSE IF e.overflow_checks /\ e.name_length + len_utf8(c) > 255
    THEN [e EXCEPT !.panic = TRUE,
                   !.buffer = Fill(e.buffer, e.pos + NameOffset + e.name_length,
                                   encode_utf8(c))]
    ELSE [e EXCEPT !.name_length = WrappedSum(e.name_length, len_utf8(c)),
                   !.buffer = Fill(e.buffer, e.pos + NameOffset + e.name_length,
                                   encode_utf8(c))]

RECURSIVE PushChars(_, _)
PushChars(e, q) ==
    IF Len(q) = 0 THEN e ELSE PushChars(PushChar(e, q[1]), Tail(q))

\* the short-name branch: extension, '.', name, each from its last byte
ShortName(e, dir_name) ==
    LET extension == SkipSpaces(Reverse(SubSeq(dir_name, 9, 11)))
        name      == SkipSpaces(Reverse(SubSeq(dir_name, 1, 8)))
        e1        == PushBytes(e, extension)
        e2        == IF e1.name_length # 0 THEN PushByte(e1, 46) ELSE e1
    IN  PushBytes(e2, name)

\* the bytes of the caller's buffer with the Entry's name_length stored
Flush(e) == Fill(e.buffer, e.pos + NameLengthOffset, <<e.name_length % 256>>)

\* what stat gives back: the value in Ok, and the records it completed (for
\* each the place in the buffer, the slot offset where its entry began and
\* the slot offset its index and size were taken from)
StatRet(result, buffer, st, log, records) ==
    [result |-> result, buffer |-> buffer, storage |-> st, log |-> log,
     value |-> 0, records |-> records]

\* the for loop over the ordinals ord, ord - 1, .., 1 of the long-name
\* branch, then the entry that follows.  result "go" carries the offset
\* and the bytes of that entry.
RECURSIVE LongNameRest(_, _, _, _, _, _, _)
LongNameRest(st, f, e, it, log, ord, fails) ==
    LET o    == OffsetsNext(st, f, it, log, fails)
        off  == f.cluster_heap_offset + o.v
        log1 == Append(o.log, Access("read", off, DirEntrySize))
        b    == DsBytes(st, off, DirEntrySize)
        Out(result, e1, lg) ==
            [result |-> result, e |-> e1, it |-> o.it, log |-> lg,
             offset |-> o.v, bytes |-> <<>>]
    IN  IF o.tag # "Some" THEN Out("panic", e, o.log)
        ELSE IF DsFails(st, off, DirEntrySize, Len(log1), fails)
        THEN Out("Err_Storage", e, log1)
        ELSE IF ord = 0 THEN [Out("go", e, log1) EXCEPT !.bytes = b]
        ELSE IF b[12] # AttrLongName THEN Out("Err_Inconsistent", e, log1)
        ELSE IF b[1] # ord THEN Out("Err_Inconsistent", e, log1)
        ELSE LET e1 == PushChars(e, decode_utf16(Reverse(LongNameUnits(b))))
             IN  IF e1.panic THEN Out("panic", e1, log1)
                 ELSE LongNameRest(st, f, e1, o.it, log1, ord - 1, fails)

\* the long-name branch, from the first fragment met (its bytes b)
LongName(st, f, e, it, log, b, fails) ==
    LET Out(result, e1) ==
            [result |-> result, e |-> e1, it |-> it, log |-> log,
             offset |-> 0, bytes |-> <<>>]
        count == BitAnd(b[1], 63)
    IN  IF BitAnd(b[1], 64) = 0 THEN Out("Err_Inconsistent", e)
        ELSE IF Len(e.buffer) - e.pos - NameOffset < count * 13 THEN Out("break", e)
        ELSE LET e1 == PushChars(e,
                           decode_utf16(SkipFiller(Reverse(LongNameUnits(b)))))
             IN  IF e1.panic THEN Out("panic", e1)
                 ELSE LongNameRest(st, f, e1, it, log,
                                   IF count = 0 THEN 0 ELSE count - 1, fails)

\* the while loop of stat
\* the byte offset of the slot taken as the index
OffsetAsIndex(offset) == offset

\* entry.index: the slot's heap-relative offset in units of DirEntry
EntryIndex(offset) == offset \div DirEntrySize

\* one pass of the while loop: done with what stat gives back, or not done
\* with the state the next pass starts from
StatIter(st, f, it, log, buffer, pos, records, fails) ==
    LET o    == OffsetsNext(st, f, it, log, fails)
        off  == f.cluster_heap_offset + o.v
        log1 == Append(o.log, Access("read", off, DirEntrySize))
        b    == DsBytes(st, off, DirEntrySize)
        e0   == [buffer |-> Fill(buffer, pos + NameLengthOffset, <<0>>),
                 pos |-> pos, name_length |-> 0, panic |-> FALSE,
                 overflow_checks |-> f.overflow_checks]
        Done(r) == [done |-> TRUE, ret |-> r, it |-> o.it, log |-> r.log,
                    buffer |-> r.buffer, pos |-> pos, records |-> r.records]
        GoOn(it1, lg, buf, pos1, recs) ==
            [done |-> FALSE, ret |-> StatRet("none", buf, st, lg, recs),
             it |-> it1, log |-> lg, buffer |-> buf, pos |-> pos1, records |-> recs]
        \* the end of the loop body: index, data_length, the next Entry
        Finish(e, it1, lg, offset, bytes) ==
            LET filled == Fill(Fill(Flush(e), pos, ToLE(EntryIndex(offset), 8)),
                               pos + 8, DirEntryOf(bytes).dir_filesize \o <<0, 0, 0, 0>>)
                entry_size == next_multiple_of(NameLengthOffset + e.name_length,
                                               EntryAlign)
                record == [pos |-> pos, first |-> o.v, slot |-> offset]
            IN  IF entry_size > Len(buffer) - pos
                THEN Done(StatRet("panic", filled, st, lg, Append(records, record)))
                ELSE GoOn(it1, lg, filled, pos + entry_size, Append(records, record))
    IN  IF o.tag = "None" THEN Done(StatRet("Ok", buffer, st, o.log, records))
        ELSE IF o.tag = "panic" THEN Done(StatRet("panic", buffer, st, o.log, records))
        ELSE IF DsFails(st, off, DirEntrySize, Len(log1), fails)
        THEN Done(StatRet("Err_Storage", buffer, st, log1, records))
        ELSE IF b[1] = 0 THEN Done(StatRet("Ok", buffer, st, log1, records))
        ELSE IF b[1] = 229 THEN GoOn(o.it, log1, buffer, pos, records)
        ELSE IF ~EntryCastOk(Len(buffer) - pos)
        THEN Done(StatRet("Ok", buffer, st, log1, records))
        ELSE IF b[12] # AttrLongName
        THEN IF Len(buffer) - pos - NameOffset < 11
             THEN Done(StatRet("Ok", e0.buffer, st, log1, records))
             ELSE LET e == ShortName(e0, DirEntryOf(b).dir_name)
                  IN  IF e.panic
                      THEN Done(StatRet("panic", Flush(e), st, log1, records))
                      ELSE Finish(e, o.it, log1, o.v, b)
        ELSE LET l == LongName(st, f, e0, o.it, log1, b, fails)
             IN  IF l.result = "go" THEN Finish(l.e, l.it, l.log, l.offset, l.bytes)
                 ELSE Done(StatRet(IF l.result = "break" THEN "Ok" ELSE l.result,
                                   Flush(l.e), st, l.log, records))

\* the while loop: its passes in turn, each computed once, up to the pass
\* that ends stat
RECURSIVE StatLoop(_, _, _, _, _, _, _, _)
StatLoop(st, f, it, log, buffer, pos, records, fails) ==
    CHOOSE r \in { IF s.done THEN s.ret
                   ELSE StatLoop(st, f, s.it, s.log, s.buffer, s.pos, s.records, fails) :
                   s \in {StatIter(st, f, it, log, buffer, pos, records, fails)} } : TRUE

stat(st, f, index, offset, buffer, fails) ==
    IF index = 0
    THEN StatLoop(st, f, NoOffsets(f.first_cluster_of_root_directory), <<>>,
                  buffer, 0, <<>>, fails)
    ELSE LET eoff == f.cluster_heap_offset + index * DirEntrySize
             log0 == <<Access("read", eoff, DirEntrySize)>>
             dir_entry == DirEntryOf(DsBytes(st, eoff, DirEntrySize))
         IN  IF DsFails(st, eoff, DirEntrySize, 1, fails)
             THEN StatRet("Err_Storage", buffer, st, log0, <<>>)
             ELSE IF BitAnd(dir_entry.dir_attr, 16) = 0
             THEN StatRet("Err_Index", buffer, st, log0, <<>>)
             ELSE StatLoop(st, f, NoOffsets(FirstCluster(dir_entry)), log0,
                           buffer, 0, <<>>, fails)

(***************************************************************************)
(* FileSystemServer::new over the fields of the boot sector.               *)
(***************************************************************************)
\* a test that takes every value but 0
is_not_zero(value) == value # 0

is_power_of_two(value) == value # 0 /\ BitAnd(value, value - 1) = 0

RECURSIVE ilog2(_)
ilog2(value) == IF value <= 1 THEN 0 ELSE 1 + ilog2(value \div 2)

\* the number a little-endian byte sequence stands for
RECURSIVE FromLE(_)
FromLE(bytes) ==
    IF Len(bytes) = 0 THEN 0 ELSE bytes[1] + 256 * FromLE(Tail(bytes))

\* u64 values the model's integers cannot hold are kept as their eight
\* little-endian bytes.  a + b:
RECURSIVE AddCarry(_, _, _)
AddCarry(a, b, carry) ==
    IF Len(a) = 0 THEN <<>>
    ELSE <<(a[1] + b[1] + carry) % 256>>
         \o AddCarry(Tail(a), Tail(b), (a[1] + b[1] + carry) \div 256)

AddW(a, b) == AddCarry(a, b, 0)

\* a * k for a small k
RECURSIVE MulCarry(_, _, _)
MulCarry(a, k, carry) ==
    IF Len(a) = 0 THEN <<>>
    ELSE <<(a[1] * k + carry) % 256>>
         \o MulCarry(Tail(a), k, (a[1] * k + carry) \div 256)

MulW(a, k) == MulCarry(a, k, 0)

\* (a as u64) << k
ShlW(a, k) == MulW(a, Pow2(k))

\* the result of a u32 operation: whether the exact value a fits, and the
\* value a build without overflow checks goes on with
Fits32(a) == SubSeq(a, 5, 8) = <<0, 0, 0, 0>>
Wrap32(a) == SubSeq(a, 1, 4) \o <<0, 0, 0, 0>>

\* new, after the read of the boot sector bs.  A u32 operation that
\* overflows panics in a build with overflow checks and wraps in a build
\* without them.  The offsets of the server are kept as eight bytes.
New(bs, overflow_checks) ==
    LET bytes_per_sector         == bs.bpb_bytspersec
        bytes_per_sector_log2    == ilog2(bytes_per_sector)
        sectors_per_cluster      == bs.bpb_secperclus
        sectors_per_cluster_log2 == ilog2(sectors_per_cluster)
        fat_offset               == ToLE(bs.bpb_rsvdseccnt, 8)
        number_of_fats           == bs.bpb_numfats
        fat_length               == IF bs.bpb_fatsz16 # 0 THEN ToLE(bs.bpb_fatsz16, 8)
                                    ELSE bs.bpb_fatsz32 \o <<0, 0, 0, 0>>
        product                  == MulW(fat_length, number_of_fats)
        sum                      == AddW(fat_offset, Wrap32(product))
        root_directory_offset    == Wrap32(sum)
        root_directory_length    == bs.bpb_rootentcnt * DirEntrySize
        heap                     == AddW(root_directory_offset,
                                         ToLE(Shr(root_directory_length,
                                                  bytes_per_sector_log2), 8))
        cluster_heap_offset      == Wrap32(heap)
        Inconsistent             == [result |-> "Err_Inconsistent", fs |-> <<>>]
        Panic                    == [result |-> "panic", fs |-> <<>>]
    IN  IF ~is_power_of_two(bytes_per_sector) THEN Inconsistent
        ELSE IF bytes_per_sector_log2 < 9 \/ bytes_per_sector_log2 > 12 THEN Inconsistent
        ELSE IF ~is_power_of_two(sectors_per_cluster) THEN Inconsistent
        ELSE IF sectors_per_cluster_log2 > 7 THEN Inconsistent
        ELSE IF number_of_fats # 1 /\ number_of_fats # 2 THEN Inconsistent
        ELSE IF overflow_checks /\ (~Fits32(product) \/ ~Fits32(sum)) THEN Panic
        ELSE IF BitAnd(root_directory_length, Pow2(bytes_per_sector_log2 + 1)) # 0
             THEN Inconsistent
        ELSE IF overflow_checks /\ ~Fits32(heap) THEN Panic
        ELSE [result |-> "Ok",
              fs |-> [bytes_per_cluster_log2 |->
                          bytes_per_sector_log2 + sectors_per_cluster_log2,
                      fat_offset |-> ShlW(fat_offset, bytes_per_sector_log2),
                      cluster_heap_offset |->
                          ShlW(cluster_heap_offset, bytes_per_sector_log2),
                      first_cluster_of_root_directory |-> bs.bpb_rootclus,
                      overflow_checks |-> overflow_checks]]

\* the server with its offsets as numbers, for the volumes of the model
FsOf(server) ==
    [server EXCEPT !.fat_offset = FromLE(@), !.cluster_heap_offset = FromLE(@)]

(***************************************************************************)
(* Fixture volumes: 512-byte sectors, one sector per cluster, one reserved *)
(* sector, one FAT of one sector, the root directory at cluster 2 and      *)
(* MaxChain more clusters (numbers 3 ..) behind it.                        *)
(***************************************************************************)
FixtureBoot ==
    [bpb_bytspersec |-> 512, bpb_secperclus |-> 1, bpb_rsvdseccnt |-> 1,
     bpb_numfats |-> 1, bpb_rootentcnt |-> 0, bpb_fatsz16 |-> 0,
     bpb_fatsz32 |-> <<1, 0, 0, 0>>,
     bpb_rootclus |-> 2]

FixtureFs == FsOf(New(FixtureBoot, TRUE).fs)

\* bytes in a cluster of the fixture volumes
S == Pow2(FixtureFs.bytes_per_cluster_log2)

\* size of the image: boot sector, FAT, root cluster, MaxChain clusters
ImageSize == FixtureFs.cluster_heap_offset + (1 + MaxChain) * S

\* a FAT entry that ends a chain
EndOfChain == ChainEndMin + 8

\* a disk image from its FAT entries and the bytes of its cluster heap
Image(FatAt(_), HeapAt(_)) ==
    [a1 \in 1..ImageSize |->
        LET a == a1 - 1
        IN  IF a < FixtureFs.fat_offset THEN 0
            ELSE IF a < FixtureFs.cluster_heap_offset
            THEN ToLE(FatAt((a - FixtureFs.fat_offset) \div FatEntrySize),
                      FatEntrySize)[((a - FixtureFs.fat_offset) % FatEntrySize) + 1]
            ELSE HeapAt(a - FixtureFs.cluster_heap_offset)]

\* the 32 bytes of a short-name directory entry
DirEntryBytes(name, attr, first_cluster, size) ==
    [i \in 1..DirEntrySize |->
        IF i <= 11 THEN name[i]
        ELSE IF i = 12 THEN attr
        ELSE IF i \in 21..22 THEN ToLE(first_cluster \div 65536, 2)[i - 20]
        ELSE IF i \in 27..28 THEN ToLE(first_cluster % 65536, 2)[i - 26]
        ELSE IF i \in 29..32 THEN ToLE(size, 4)[i - 28]
        ELSE 0]

\* the 32 bytes of a long-name directory entry: ordinal byte, 13 code units
LongEntryBytes(ord, units) ==
    [i \in 1..DirEntrySize |->
        IF i = 1 THEN ord
        ELSE IF i \in 2..11 THEN ToLE(units[i \div 2], 2)[(i % 2) + 1]
        ELSE IF i = 12 THEN AttrLongName
        ELSE IF i \in 15..26 THEN ToLE(units[(i - 3) \div 2], 2)[((i - 1) % 2) + 1]
        ELSE IF i \in 29..32 THEN ToLE(units[(i - 5) \div 2], 2)[((i - 1) % 2) + 1]
        ELSE 0]

\* a name of code units as the 13-unit groups of its long-name entries:
\* ended by 0x0000 and filled with 0xFFFF when it does not fill the last one
PaddedUnits(units) ==
    LET k == (Len(units) + 12) \div 13
    IN  [i \in 1..(13 * k) |->
            IF i <= Len(units) THEN units[i]
            ELSE IF i = Len(units) + 1 THEN 0 ELSE 65535]

\* the long-name entries of a name as stored: the highest ordinal first, with
\* the 'last' bit 0x40, down to ordinal 1
RECURSIVE LongEntries(_, _, _)
LongEntries(padded, k, first) ==
    IF k = 0 THEN <<>>
    ELSE LongEntryBytes(IF first THEN k + 64 ELSE k, SubSeq(padded, 13 * k - 12, 13 * k))
         \o LongEntries(padded, k - 1, FALSE)

LongSet(units) == LongEntries(PaddedUnits(units), (Len(units) + 12) \div 13, TRUE)

\* the FAT of a volume whose only chain beside the root's is chain; endv is
\* the value in the entry of the chain's last cluster
ChainFat(chain, endv, n) ==
    IF n = 0 THEN EndOfChain - 7
    ELSE IF n \in 1..2 THEN EndOfChain
    ELSE IF \E i \in 1..Len(chain) : chain[i] = n
    THEN LET i == CHOOSE j \in 1..Len(chain) : chain[j] = n
         IN  IF i = Len(chain) THEN endv ELSE chain[i + 1]
    ELSE 0

\* content of the data clusters: a byte that tells its place
DataByte(h) == ((h * 7) % 100) + 1

\* root directory of the file fixtures: slot 0 the volume label, slot 1 a file
\* with the given chain, slot 2 an empty subdirectory, slot 3 the long-name
\* entry of the empty file at slot 4
FileRoot(chain) ==
    DirEntryBytes(<<86, 79, 76, 32, 32, 32, 32, 32, 32, 32, 32>>, 8, 0, 0)
    \o DirEntryBytes(<<70, 73, 76, 69, 32, 32, 32, 32, 84, 88, 84>>, 32,
                     IF Len(chain) = 0 THEN 0 ELSE chain[1], Len(chain) * S)
    \o DirEntryBytes(<<83, 85, 66, 32, 32, 32, 32, 32, 32, 32, 32>>, 16, 0, 0)
    \o LongSet(<<110, 111, 116, 101>>)
    \o DirEntryBytes(<<78, 79, 84, 69, 32, 32, 32, 32, 32, 32, 32>>, 32, 0, 0)

FileImage(chain, endv) ==
    LET root == FileRoot(chain)
        HeapAt(h) == IF h < Len(root) THEN root[h + 1]
                     ELSE IF h < S THEN 0
                     ELSE DataByte(h)
        FatAt(n) == ChainFat(chain, endv, n)
    IN  Image(FatAt, HeapAt)

\* chains of the file fixtures: each length up to MaxChain, in ascending and in
\* descending cluster order
FileChains ==
    { [i \in 1..n |-> 2 + i] : n \in 0..MaxChain }
    \cup { [i \in 1..n |-> 3 + MaxChain - i] : n \in 1..MaxChain }

\* the slot of the file in the file fixtures
FileSlot ==
    CHOOSE i \in 0..3 :
        FileRoot(<<>>)[i * DirEntrySize + 12] = 32

(***************************************************************************)
(* Directory fixtures for stat.                                            *)
(***************************************************************************)
\* a short-name field of n base and m extension characters, padded with 0x20
ShortNameField(n, m) ==
    [i \in 1..11 |->
        IF i <= 8 THEN (IF i <= n THEN 64 + i ELSE 32)
        ELSE (IF i - 8 <= m THEN 79 + i ELSE 32)]

\* a name of len code units; a mixed one holds U+00E9 and U+20AC
NameUnits(len, mixed) ==
    [i \in 1..len |->
        IF mixed /\ i % 13 = 2 THEN 233
        ELSE IF mixed /\ i % 13 = 0 THEN 8364
        ELSE 96 + ((i - 1) % 26) + 1]

\* the name lengths of the fixtures: every fragment count up to MaxFrags,
\* with and without filler in the last fragment
NameLengths ==
    UNION { {13 * k - 12, 13 * k - 11, 13 * k - 1, 13 * k} : k \in 1..MaxFrags }

\* a root directory that holds one short-name entry
ShortRoot(n, m) == DirEntryBytes(ShortNameField(n, m), 32, 0, 7)

\* a root directory that holds one long name and its short-name entry
LongRoot(len, mixed) ==
    LongSet(NameUnits(len, mixed))
    \o DirEntryBytes(<<76, 79, 78, 71, 78, 65, 126, 49, 32, 32, 32>>, 32, 0, 9)

\* a root directory with a deleted entry, a short name, a long name and a
\* subdirectory at cluster 3
MixedRoot ==
    DirEntryBytes(<<229, 79, 76, 68, 32, 32, 32, 32, 32, 32, 32>>, 32, 0, 0)
    \o DirEntryBytes(ShortNameField(2, 1), 32, 0, 5)
    \o LongSet(NameUnits(3, TRUE))
    \o DirEntryBytes(<<78, 79, 84, 69, 32, 32, 32, 32, 32, 32, 32>>, 32, 0, 3)
    \o DirEntryBytes(<<83, 85, 66, 32, 32, 32, 32, 32, 32, 32, 32>>, 16, 3, 0)

\* the slot of the subdirectory in MixedRoot
SubDirSlot ==
    CHOOSE i \in 0..((Len(MixedRoot) \div DirEntrySize) - 1) :
        MixedRoot[i * DirEntrySize + 12] = 16

\* the subdirectory of MixedRoot: one short-name entry
SubDir == DirEntryBytes(ShortNameField(1, 3), 32, 0, 11)

\* a deleted entry
DeletedEntry == DirEntryBytes(<<229, 79, 76, 68, 32, 32, 32, 32, 32, 32, 32>>, 32, 0, 0)

\* a short-name entry of a file without clusters
PlainEntry == DirEntryBytes(ShortNameField(1, 0), 32, 0, 6)

RECURSIVE Repeated(_, _)
Repeated(entry, n) == IF n = 0 THEN <<>> ELSE entry \o Repeated(entry, n - 1)

\* a subdirectory cluster without a free slot: every entry deleted
FullSubDir == Repeated(DeletedEntry, S \div DirEntrySize)

\* two short names, the first of eight name bytes
TwoShortRoot == DirEntryBytes(ShortNameField(4, 3), 32, 0, 5) \o PlainEntry

\* long names whose last fragment is followed by the end marker, by a
\* deleted entry, or by the first fragment of another name
OrphanRoots ==
    { LongSet(NameUnits(len, FALSE)) \o tail :
        len \in {3, 14},
        tail \in { <<>>, DeletedEntry \o PlainEntry,
                   LongSet(NameUnits(2, FALSE)) \o PlainEntry } }

\* thirteen code units of three UTF-8 bytes each (U+20AC)
WideUnits == [i \in 1..13 |-> 8364]

\* long names out of sequence: no 'last' bit on the first fragment, a short
\* name where fragment 1 must be (after ASCII and after wide characters),
\* ordinals 3, 1, 2 and ordinals 2, 2
BrokenRoots ==
    LET units == NameUnits(13, FALSE)
    IN  { LongEntryBytes(1, PaddedUnits(NameUnits(2, FALSE))) \o PlainEntry,
          LongEntryBytes(66, units) \o PlainEntry,
          LongEntryBytes(66, WideUnits) \o PlainEntry,
          LongEntryBytes(67, units) \o LongEntryBytes(1, units)
              \o LongEntryBytes(2, units) \o PlainEntry,
          LongEntryBytes(66, units) \o LongEntryBytes(2, units) \o PlainEntry }

\* a root directory cluster whose last slot opens a long name: its one
\* fragment, or the first of its two, stands in the last slot of the chain
LastSlotRoots ==
    { Repeated(DeletedEntry, (S \div DirEntrySize) - 1) \o LongEntryBytes(ord, NameUnits(13, FALSE)) :
        ord \in {65, 66} }

\* a long name that holds U+1F600, a surrogate pair in UTF-16
SurrogateRoot == LongSet(<<97, 55357, 56832>>) \o PlainEntry

StatRoots ==
    { ShortRoot(n, m) : n \in 0..8, m \in 0..3 }
    \cup LastSlotRoots \cup {SurrogateRoot}
    \cup { LongRoot(len, mixed) : len \in NameLengths, mixed \in BOOLEAN }
    \cup { MixedRoot, TwoShortRoot }
    \cup OrphanRoots \cup BrokenRoots

\* the volume whose root directory is root and whose cluster 3 is sub
DirImage(root, sub) ==
    LET HeapAt(h) == IF h < Len(root) THEN root[h + 1]
                     ELSE IF h >= S /\ h < S + Len(sub) THEN sub[h - S + 1]
                     ELSE 0
        FatAt(n) == IF n = 0 THEN EndOfChain - 7
                    ELSE IF n \in 1..3 THEN EndOfChain ELSE 0
    IN  Image(FatAt, HeapAt)

StatImage(root) == DirImage(root, SubDir)

(***************************************************************************)
(* Inputs of the calls.                                                    *)
(***************************************************************************)
Offsets == {0, 1, S - 4, S, S + 1, 2 * S}
Lengths == {0, 1, 8, S, S + 8}
WriteOffsets == {0, 1, S - 4, S, S + 1}
WriteLengths == {8, S + 8}
Slots   == {0, 1, 2, 3}
StatSlots   == {0, 1, SubDirSlot}
StatOffsets == {0, DirEntrySize}
StatLengths == {0, 24, 32, 48, 64, 128}

\* a caller's buffer before a read
BlankBuffer(len) == [i \in 1..len |-> 204]
\* the data of a write
DataBuffer(len) == [i \in 1..len |-> 101 + (i % 100)]

NoCall == [op |-> "none", index |-> 0, offset |-> 0, len |-> 0, fails |-> {}]
NoRet == [result |-> "none", buffer |-> <<>>, log |-> <<>>, value |-> 0,
          records |-> <<>>]
NoWalker == [seed |-> 0, entry |-> 0]
NoWrite == [valid |-> FALSE, index |-> 0, offset |-> 0, buffer |-> <<>>]

\* what the caller sees of a call's outcome
Seen(r) == [result |-> r.result, buffer |-> r.buffer, log |-> r.log,
            value |-> r.value, records |-> r.records]

(***************************************************************************)
(* The calls on the server.  There is one caller: it makes a call when no  *)
(* call is outstanding (call.op = "none"), and Return takes the result.    *)
(***************************************************************************)
ReadCall(index, offset, len, fails) ==
    /\ call.op = "none"
    /\ call' = [op |-> "read", index |-> index, offset |-> offset, len |-> len,
                fails |-> fails]
    /\ \E r \in {read(storage, fs, index, offset, BlankBuffer(len), fails)} :
           ret' = Seen(r)
    /\ UNCHANGED <<memory, storage, fs, lastWrite, nwrites, walker, items>>

WriteCall(index, offset, len, fails) ==
    /\ call.op = "none"
    /\ nwrites < MaxWrites
    /\ nwrites' = nwrites + 1
    /\ call' = [op |-> "write", index |-> index, offset |-> offset, len |-> len,
                fails |-> fails]
    /\ \E r \in {write(storage, fs, index, offset, DataBuffer(len), fails)} :
           /\ ret' = Seen(r)
           /\ storage' = r.storage
           /\ lastWrite' = IF r.result = "Ok"
                           THEN [valid |-> TRUE, index |-> index, offset |-> offset,
                                 buffer |-> DataBuffer(len)]
                           ELSE NoWrite
    /\ UNCHANGED <<memory, fs, walker, items>>

StatCall(index, offset, len, fails) ==
    /\ call.op = "none"
    /\ call' = [op |-> "stat", index |-> index, offset |-> offset, len |-> len,
                fails |-> fails]
    /\ \E r \in {stat(storage, fs, index, offset, BlankBuffer(len), fails)} :
           ret' = Seen(r)
    /\ UNCHANGED <<memory, storage, fs, lastWrite, nwrites, walker, items>>

Return ==
    /\ call.op # "none"
    /\ call' = NoCall
    /\ ret' = NoRet
    /\ UNCHANGED <<memory, storage, fs, lastWrite, nwrites, walker, items>>

InitFile ==
    /\ \E chain \in FileChains : storage = FileImage(chain, EndOfChain)
    /\ fs = FixtureFs
    /\ call = NoCall
    /\ ret = NoRet
    /\ lastWrite = NoWrite
    /\ nwrites = 0
    /\ walker = NoWalker
    /\ items = <<>>
    /\ MemoryNew

FileRead ==
    \E index \in Slots, offset \in Offsets, len \in Lengths :
        /\ index = FileSlot \/ (offset = 0 /\ len = 8)
        /\ ReadCall(index, offset, len, {})

FileWrite ==
    \E index \in Slots, offset \in WriteOffsets, len \in WriteLengths :
        /\ index = FileSlot \/ (offset = 0 /\ len = 8)
        /\ WriteCall(index, offset, len, {})

NextFile == FileRead \/ FileWrite \/ Return

SpecFile == InitFile /\ [][NextFile]_vars

(***************************************************************************)
(* The server over a storage whose accesses can fail: the n-th access of a *)
(* call fails when n is in the call's fails.                               *)
(***************************************************************************)
FailSets == {{}} \cup { {k} : k \in 1..MaxFail }

FaultRead ==
    \E index \in Slots, offset \in {0, S}, len \in {8, S + 8}, fails \in FailSets :
        ReadCall(index, offset, len, fails)

FaultWrite ==
    \E index \in Slots, offset \in {0, S}, fails \in FailSets :
        WriteCall(index, offset, 8, fails)

FaultStat ==
    \E index \in Slots, fails \in FailSets :
        StatCall(index, 0, 64, fails)

Init == InitFile

Next == FaultRead \/ FaultWrite \/ FaultStat \/ Return

Spec == Init /\ [][Next]_vars

(***************************************************************************)
(* Sequences of stat, read and write calls on the file fixtures.           *)
(***************************************************************************)
AnyRead ==
    \E index \in Slots, offset \in {0, S} : ReadCall(index, offset, 8, {})

AnyWrite ==
    \E index \in Slots, offset \in {0, S}, len \in {8, S + 8} :
        WriteCall(index, offset, len, {})

AnyStat ==
    \E index \in Slots : StatCall(index, 0, 64, {})

NextCalls == AnyRead \/ AnyWrite \/ AnyStat \/ Return

SpecCalls == InitFile /\ [][NextCalls]_vars

(***************************************************************************)
(* Mounting: FileSystemServer::new on a boot sector.  There is a server,   *)
(* and calls on it, only after new returned Ok; fs is NoFs until then.     *)
(***************************************************************************)
NoFs == [bytes_per_cluster_log2 |-> 0, fat_offset |-> 0, cluster_heap_offset |-> 0,
         first_cluster_of_root_directory |-> 0, overflow_checks |-> TRUE]

\* boot sectors around every limit new checks
BootSectors ==
    { [FixtureBoot EXCEPT !.bpb_bytspersec = bps, !.bpb_secperclus = spc,
                          !.bpb_numfats = nf, !.bpb_rootentcnt = rec] :
        bps \in {0, 256, 300, 512, 1024, 4096, 8192},
        spc \in {0, 1, 3, 8, 128, 255},
        nf  \in 0..3,
        rec \in {0, 1, 16, 32, 48, 512} }

\* new: the read of the boot sector, then the decoding
Mount ==
    /\ call.op = "none"
    /\ \E bs \in BootSectors, fails \in {{}, {1}} :
          /\ call' = [op |-> "new", index |-> 0, offset |-> 0, len |-> 0,
                      fails |-> fails, boot |-> bs]
          /\ \E r \in {IF 1 \in fails THEN [result |-> "Err_Storage", fs |-> NoFs]
                        ELSE New(bs, TRUE)} :
                /\ ret' = [NoRet EXCEPT !.result = r.result]
                /\ fs' = IF r.result = "Ok" THEN FsOf(r.fs) ELSE NoFs
    /\ UNCHANGED <<memory, storage, lastWrite, nwrites, walker, items>>

\* a call on the server new returned
MountedRead ==
    /\ fs # NoFs
    /\ ReadCall(0, 0, 8, {})

InitNew ==
    /\ storage = FileImage(<<>>, EndOfChain)
    /\ fs = NoFs
    /\ call = NoCall
    /\ ret = NoRet
    /\ lastWrite = NoWrite
    /\ nwrites = 0
    /\ walker = NoWalker
    /\ items = <<>>
    /\ MemoryNew

NextNew == Mount \/ MountedRead \/ Return

SpecNew == InitNew /\ [][NextNew]_vars

(***************************************************************************)
(* new on boot sectors whose fields take the ends of their ranges, in a    *)
(* build with and in a build without overflow checks.                      *)
(***************************************************************************)
\* bpb_fatsz32 values: 1, 0x7FFFFFFF, 0x80000000, 0xFFFFFFFF
FatSizes ==
    { <<1, 0, 0, 0>>, <<255, 255, 255, 127>>, <<0, 0, 0, 128>>,
      <<255, 255, 255, 255>> }

WideBootSectors ==
    { [FixtureBoot EXCEPT !.bpb_bytspersec = bps, !.bpb_secperclus = spc,
                          !.bpb_numfats = nf, !.bpb_rsvdseccnt = rsvd,
                          !.bpb_fatsz16 = sz16, !.bpb_fatsz32 = sz32,
                          !.bpb_rootentcnt = rec] :
        bps \in {512, 4096}, spc \in {1, 128}, nf \in {1, 2},
        rsvd \in {1, 2, 65535}, sz16 \in {0, 9, 65535}, sz32 \in FatSizes,
        rec \in {0, 512, 65535} }

\* new returns the server or the error; the server is not used afterwards
NewCall ==
    /\ call.op = "none"
    /\ \E bs \in WideBootSectors, overflow_checks \in BOOLEAN :
          /\ call' = [op |-> "new", index |-> 0, offset |-> 0, len |-> 0,
                      fails |-> {}, boot |-> bs, checks |-> overflow_checks]
          /\ \E r \in {New(bs, overflow_checks)} :
                ret' = [NoRet EXCEPT !.result = r.result, !.value = r.fs]
    /\ UNCHANGED <<memory, storage, fs, lastWrite, nwrites, walker, items>>

NextGeometry == NewCall \/ Return

SpecGeometry == InitNew /\ [][NextGeometry]_vars

(***************************************************************************)
(* Listing the directory fixtures.                                         *)
(***************************************************************************)
InitStat ==
    /\ \/ \E root \in StatRoots : storage = StatImage(root)
       \/ storage = DirImage(MixedRoot, FullSubDir)
    /\ fs = FixtureFs
    /\ call = NoCall
    /\ ret = NoRet
    /\ lastWrite = NoWrite
    /\ nwrites = 0
    /\ walker = NoWalker
    /\ items = <<>>
    /\ MemoryNew

StatDir ==
    \E index \in StatSlots, offset \in StatOffsets, len \in StatLengths :
        StatCall(index, offset, len, {})

NextStat == StatDir \/ Return

SpecStat == InitStat /\ [][NextStat]_vars

(***************************************************************************)
(* A ClusterChain on its own: made with a first cluster, then asked for    *)
(* its next item again and again.                                          *)
(***************************************************************************)
\* values a FAT entry can hold that end a chain: free, reserved, bad
\* cluster, end of chain, and the largest the model's integers hold
EndValues == {0, 1, ChainEndMin, EndOfChain, 2147483647}

\* first clusters a walker is made with
Seeds == (0..(3 + MaxChain)) \cup {ChainEndMin, EndOfChain}

ChainNext ==
    /\ Len(items) < MaxChain + 2
    /\ \E r \in {ClusterChainNext(storage, fs, walker.entry, 0, {})} :
           /\ items' = Append(items, r.item)
           /\ walker' = [walker EXCEPT !.entry = r.entry]
    /\ UNCHANGED <<memory, storage, fs, call, ret, lastWrite, nwrites>>

InitChain ==
    /\ \E chain \in FileChains, endv \in EndValues :
           storage = FileImage(chain, endv)
    /\ fs = FixtureFs
    /\ call = NoCall
    /\ ret = NoRet
    /\ lastWrite = NoWrite
    /\ nwrites = 0
    /\ \E seed \in Seeds : walker = [seed |-> seed, entry |-> seed]
    /\ items = <<>>
    /\ MemoryNew

NextChain == ChainNext

SpecChain == InitChain /\ [][NextChain]_vars

\* next on a storage whose read of the FAT entry answers or fails
ChainNextFault ==
    /\ Len(items) < MaxChain + 2
    /\ \E fails \in {{}, {1}} :
          /\ call' = [NoCall EXCEPT !.op = "next", !.fails = fails]
          /\ \E r \in {ClusterChainNext(storage, fs, walker.entry, 0, fails)} :
                 /\ items' = Append(items, r.item)
                 /\ walker' = [walker EXCEPT !.entry = r.entry]
    /\ UNCHANGED <<memory, storage, fs, ret, lastWrite, nwrites>>

NextChainFault == ChainNextFault

SpecChainFault == InitChain /\ [][NextChainFault]_vars

(***************************************************************************)
(* The calls one step after the other: a step is one item taken from the   *)
(* ClusterChain (or, in stat, one pass of the while loop) with the storage *)
(* accesses that belong to it.  call.phase is the place the call is at:    *)
(* "skip" before the first retained cluster, "rest" in the for loop over   *)
(* the zip, "dir" in the while loop of stat, "chain" for a ClusterChain    *)
(* used on its own, "done" when the call has returned or aborted.  The     *)
(* storage always answers; it refuses accesses outside the image.          *)
(***************************************************************************)
WalkIdle ==
    [op |-> "none", index |-> 0, offset |-> 0, len |-> 0, fails |-> {},
     phase |-> "idle", skip |-> 0, left |-> 0, next |-> 0, end |-> 0, pos |-> 0]

\* a root directory without a free slot whose cluster links to itself
LoopDirImage ==
    LET HeapAt(h) == IF h < S THEN FullSubDir[h + 1] ELSE 0
        FatAt(n) == IF n = 0 THEN EndOfChain - 7
                    ELSE IF n = 1 THEN EndOfChain
                    ELSE IF n = 2 THEN n ELSE 0
    IN  Image(FatAt, HeapAt)

\* files whose chain ends and files whose last cluster links back to the
\* first; directories with and without an end marker
WalkImages ==
    { FileImage(chain, endv) :
        chain \in {<<3>>, <<4, 3>>}, endv \in {EndOfChain, 3, 4} }
    \cup { DirImage(MixedRoot, FullSubDir), DirImage(FullSubDir, SubDir),
           LoopDirImage }

WalkOffsets == {0, S, 2 * S + 1}
WalkLengths == {0, 8, S + 8, 2 * S}
WalkSeeds   == {0, 3, 4, EndOfChain}

\* read and write up to the ClusterChain: the directory entry is loaded and
\* checked
FileBegin ==
    /\ call.op = "none"
    /\ \E op \in {"read", "write"}, index \in {0, FileSlot}, offset \in WalkOffsets,
          len \in WalkLengths :
          LET eoff == fs.cluster_heap_offset + index * DirEntrySize
              dir_entry == DirEntryOf(DsBytes(storage, eoff, DirEntrySize))
              c == [WalkIdle EXCEPT !.op = op, !.index = index, !.offset = offset,
                                    !.len = len, !.left = len,
                                    !.skip = Shr(offset, fs.bytes_per_cluster_log2)]
          IN  /\ op = "write" => nwrites < MaxWrites
              /\ nwrites' = IF op = "write" THEN nwrites + 1 ELSE nwrites
              /\ IF DsFails(storage, eoff, DirEntrySize, 1, {})
                 THEN /\ call' = [c EXCEPT !.phase = "done"]
                      /\ ret' = [NoRet EXCEPT !.result = "Err_Storage"]
                      /\ walker' = NoWalker
                 ELSE IF NotFile(dir_entry)
                 THEN /\ call' = [c EXCEPT !.phase = "done"]
                      /\ ret' = [NoRet EXCEPT !.result = "Err_Index"]
                      /\ walker' = NoWalker
                 ELSE /\ call' = [c EXCEPT !.phase = "skip"]
                      /\ ret' = NoRet
                      /\ walker' = [seed |-> FirstCluster(dir_entry),
                                    entry |-> FirstCluster(dir_entry)]
    /\ UNCHANGED <<memory, storage, fs, lastWrite, items>>

\* one item dropped by skip: nth ends with None when the chain ends, and so
\* do the calls of next after it
SkipStep ==
    /\ call.phase = "skip"
    /\ call.skip > 0
    /\ \E r \in {ClusterChainNext(storage, fs, walker.entry, 0, {})} :
          IF r.item.tag = "None"
          THEN /\ call' = [call EXCEPT !.phase = "done"]
               /\ ret' = [ret EXCEPT !.result = "Ok"]
               /\ walker' = walker
          ELSE /\ call' = [call EXCEPT !.skip = @ - 1]
               /\ ret' = ret
               /\ walker' = [walker EXCEPT !.entry = r.entry]
    /\ UNCHANGED <<memory, storage, fs, lastWrite, nwrites, items>>

\* the first retained cluster and the access to it
FirstStep ==
    /\ call.phase = "skip"
    /\ call.skip = 0
    /\ \E r \in {ClusterChainNext(storage, fs, walker.entry, 0, {})} :
          LET off0       == ClusterOffset(fs, call.offset)
              buffer_end == Min(call.len, Pow2(fs.bytes_per_cluster_log2) - off0)
              off        == fs.cluster_heap_offset
                            + Shl(r.item.v, fs.bytes_per_cluster_log2) + off0
              End(result) ==
                  /\ call' = [call EXCEPT !.phase = "done"]
                  /\ ret' = [ret EXCEPT !.result = result]
                  /\ storage' = storage
          IN  /\ walker' = [walker EXCEPT !.entry = r.entry]
              /\ IF r.item.tag = "None" THEN End("Ok")
                 ELSE IF r.item.tag = "Err" THEN End("Err_Storage")
                 ELSE IF DsFails(storage, off, buffer_end, 1, {}) THEN End("Err_Storage")
                 ELSE /\ call' = [call EXCEPT !.phase = "rest",
                                              !.left = call.len - buffer_end]
                      /\ ret' = ret
                      /\ storage' = IF call.op = "write"
                                    THEN DsStore(storage, off,
                                                 Slice(DataBuffer(call.len), 0,
                                                       buffer_end))
                                    ELSE storage
    /\ UNCHANGED <<memory, fs, lastWrite, nwrites, items>>

\* one pass of the for loop: Zip::next takes the next cluster, then the next
\* chunk of the buffer, and the loop ends when either is missing
RestStep ==
    /\ call.phase = "rest"
    /\ \E r \in {ClusterChainNext(storage, fs, walker.entry, 0, {})} :
          LET n   == ChunkLen(fs, call.left)
              off == fs.cluster_heap_offset + Shl(r.item.v, fs.bytes_per_cluster_log2)
              End(result) ==
                  /\ call' = [call EXCEPT !.phase = "done"]
                  /\ ret' = [ret EXCEPT !.result = result]
                  /\ storage' = storage
          IN  /\ walker' = [walker EXCEPT !.entry = r.entry]
              /\ IF r.item.tag = "None" THEN End("Ok")
                 ELSE IF call.left = 0 THEN End("Ok")
                 ELSE IF r.item.tag = "Err" THEN End("Err_Storage")
                 ELSE IF DsFails(storage, off, n, 1, {}) THEN End("Err_Storage")
                 ELSE /\ call' = [call EXCEPT !.left = @ - n]
                      /\ ret' = ret
                      /\ storage' = IF call.op = "write"
                                    THEN DsStore(storage, off,
                                                 Slice(DataBuffer(call.len),
                                                       call.len - call.left, n))
                                    ELSE storage
    /\ UNCHANGED <<memory, fs, lastWrite, nwrites, items>>

\* stat up to the while loop
StatBegin ==
    /\ call.op = "none"
    /\ \E index \in {0, FileSlot, SubDirSlot}, len \in {0, 32, 64} :
          LET eoff == fs.cluster_heap_offset + index * DirEntrySize
              dir_entry == DirEntryOf(DsBytes(storage, eoff, DirEntrySize))
              c == [WalkIdle EXCEPT !.op = "stat", !.index = index, !.len = len]
              End(result) ==
                  /\ call' = [c EXCEPT !.phase = "done"]
                  /\ ret' = [NoRet EXCEPT !.result = result]
                  /\ walker' = NoWalker
              Begin(first_cluster) ==
                  /\ call' = [c EXCEPT !.phase = "dir"]
                  /\ ret' = [NoRet EXCEPT !.buffer = BlankBuffer(len)]
                  /\ walker' = [seed |-> first_cluster, entry |-> first_cluster]
          IN  IF index = 0 THEN Begin(fs.first_cluster_of_root_directory)
              ELSE IF DsFails(storage, eoff, DirEntrySize, 1, {}) THEN End("Err_Storage")
              ELSE IF BitAnd(dir_entry.dir_attr, 16) = 0 THEN End("Err_Index")
              ELSE Begin(FirstCluster(dir_entry))
    /\ UNCHANGED <<memory, storage, fs, lastWrite, nwrites, items>>

\* one pass of the while loop of stat
StatStep ==
    /\ call.phase = "dir"
    /\ \E s \in {StatIter(storage, fs,
                          [entry |-> walker.entry, next |-> call.next,
                           end |-> call.end],
                          <<>>, ret.buffer, call.pos, ret.records, {})} :
          /\ walker' = [walker EXCEPT !.entry = s.it.entry]
          /\ IF s.done
             THEN /\ call' = [call EXCEPT !.phase = "done"]
                  /\ ret' = [ret EXCEPT !.result = s.ret.result,
                                        !.buffer = s.ret.buffer,
                                        !.records = s.ret.records]
             ELSE /\ call' = [call EXCEPT !.next = s.it.next, !.end = s.it.end,
                                          !.pos = s.pos]
                  /\ ret' = [ret EXCEPT !.buffer = s.buffer, !.records = s.records]
    /\ UNCHANGED <<memory, storage, fs, lastWrite, nwrites, items>>

\* a ClusterChain made with a first cluster
ChainBegin ==
    /\ call.op = "none"
    /\ \E seed \in WalkSeeds :
          walker' = [seed |-> seed, entry |-> seed]
    /\ call' = [WalkIdle EXCEPT !.op = "chain", !.phase = "chain"]
    /\ items' = <<>>
    /\ UNCHANGED <<memory, storage, fs, ret, lastWrite, nwrites>>

\* next on it; items keeps the item of the last call
ChainStep ==
    /\ call.phase = "chain"
    /\ \E r \in {ClusterChainNext(storage, fs, walker.entry, 0, {})} :
          /\ items' = <<r.item>>
          /\ walker' = [walker EXCEPT !.entry = r.entry]
    /\ UNCHANGED <<memory, storage, fs, call, ret, lastWrite, nwrites>>

\* the caller takes the result, or drops the ClusterChain
WalkReturn ==
    /\ call.phase \in {"done", "chain"}
    /\ call' = WalkIdle
    /\ ret' = NoRet
    /\ walker' = NoWalker
    /\ items' = <<>>
    /\ UNCHANGED <<memory, storage, fs, lastWrite, nwrites>>

InitWalk ==
    /\ storage \in WalkImages
    /\ fs = FixtureFs
    /\ call = WalkIdle
    /\ ret = NoRet
    /\ lastWrite = NoWrite
    /\ nwrites = 0
    /\ walker = NoWalker
    /\ items = <<>>
    /\ MemoryNew

NextWalk ==
    \/ FileBegin \/ StatBegin \/ ChainBegin
    \/ SkipStep \/ FirstStep \/ RestStep \/ StatStep \/ ChainStep
    \/ WalkReturn

\* a call of read, write or stat that has begun and not ended
Running == call.phase \in {"skip", "rest", "dir"}

\* A call that has begun is not held up: the handler runs on, one step after
\* the other.  This is weak fairness of SkipStep \/ FirstStep \/ RestStep \/
\* StatStep written out: one of them is enabled exactly when the call is
\* Running, and the steps taken while Running are theirs.
WalkFairness == []<>(~Running) \/ []<><<Running>>_vars

SpecWalk == InitWalk /\ [][NextWalk]_vars /\ WalkFairness

(***************************************************************************)
(* What the volume holds, read off the image itself: the directory entry   *)
(* at a slot and the chain its first cluster starts in the FAT.            *)
(***************************************************************************)
ClusterSize == Pow2(fs.bytes_per_cluster_log2)

EntryAt(index) ==
    DirEntryOf(DsBytes(storage, fs.cluster_heap_offset + index * DirEntrySize,
                       DirEntrySize))

FatEntry(c) == LE32(DsBytes(storage, fs.fat_offset + c * FatEntrySize, FatEntrySize))

\* the heap indices of the chain that starts at cluster number c
RECURSIVE FatChain(_, _)
FatChain(c, fuel) ==
    IF c <= 1 \/ c >= ChainEndMin \/ fuel = 0 THEN <<>>
    ELSE <<c - 2>> \o FatChain(FatEntry(c), fuel - 1)

ChainOfSlot(index) == FatChain(FirstCluster(EntryAt(index)), 1 + MaxChain)

IsFileSlot(index) == BitAnd(EntryAt(index).dir_attr, 24) = 0

\* the image address of byte p of the file whose chain is chain
FileByteAddr(chain, p) ==
    fs.cluster_heap_offset + chain[(p \div ClusterSize) + 1] * ClusterSize
    + (p % ClusterSize)

(***************************************************************************)
(* C1: a read that lies inside the file's chain fills buf[i] with the      *)
(* storage byte at cluster_heap_offset + c_k * S + r, k = (o + i) div S,   *)
(* r = (o + i) mod S, for every offset o, aligned or not.                  *)
(***************************************************************************)
C1_ReadReturnsMappedBytes ==
    (/\ call.op = "read"
     /\ IsFileSlot(call.index)
     /\ call.offset + call.len <= Len(ChainOfSlot(call.index)) * ClusterSize)
    => /\ ret.result = "Ok"
       /\ \A i \in 0..(call.len - 1) :
             ret.buffer[i + 1]
             = storage[FileByteAddr(ChainOfSlot(call.index), call.offset + i) + 1]

(***************************************************************************)
(* C2: a write that lies inside the file's chain, followed by a read of    *)
(* the same slot, offset and length with no write in between, reads back   *)
(* the data written.                                                       *)
(***************************************************************************)
C2_WriteThenReadRoundTrips ==
    (/\ call.op = "read"
     /\ lastWrite.valid
     /\ call.index = lastWrite.index
     /\ call.offset = lastWrite.offset
     /\ call.len = Len(lastWrite.buffer)
     /\ call.offset + call.len <= Len(ChainOfSlot(call.index)) * ClusterSize)
    => /\ ret.result = "Ok"
       /\ ret.buffer = lastWrite.buffer

(***************************************************************************)
(* C8: when the chain ends before the request is satisfied, read and       *)
(* write return Ok; the bytes of the request that lie past the chain are   *)
(* not transferred (read leaves them in the buffer as they were, write     *)
(* touches no storage for them) and every data access lies in a cluster of *)
(* the chain.                                                              *)
(***************************************************************************)
\* the image addresses the bytes o .. o+len-1 of the file map to
MappedAddrs(chain, o, len) ==
    { FileByteAddr(chain, o + i) :
        i \in { j \in 0..(len - 1) : o + j < Len(chain) * ClusterSize } }

\* the image addresses of the clusters of the chain
ChainAddrs(chain) ==
    { fs.cluster_heap_offset + chain[k] * ClusterSize + r :
        k \in 1..Len(chain), r \in 0..(ClusterSize - 1) }

\* the addresses of the data accesses of the call (all accesses but the
\* directory-entry load and the FAT lookups)
DataAccessAddrs ==
    UNION { {ret.log[n].offset + j : j \in 0..(ret.log[n].len - 1)} :
              n \in { m \in 2..Len(ret.log) :
                        ret.log[m].offset >= fs.cluster_heap_offset } }

C8_ChainEndIsShortTransfer ==
    (/\ call.op \in {"read", "write"}
     /\ IsFileSlot(call.index)
     /\ call.offset + call.len > Len(ChainOfSlot(call.index)) * ClusterSize)
    => /\ ret.result = "Ok"
       /\ DataAccessAddrs \subseteq ChainAddrs(ChainOfSlot(call.index))
       /\ call.op = "read" =>
             \A i \in 0..(call.len - 1) :
                 call.offset + i >= Len(ChainOfSlot(call.index)) * ClusterSize
                 => ret.buffer[i + 1] = BlankBuffer(call.len)[i + 1]
       /\ call.op = "write" =>
             DataAccessAddrs
             \subseteq MappedAddrs(ChainOfSlot(call.index), call.offset, call.len)

(***************************************************************************)
(* C3: over a FAT that links c1 -> c2 -> ... -> cn and then holds an end   *)
(* value (<= 1 or >= 0xFFFFFF7), a ClusterChain made with c1 yields        *)
(* Ok(c1 - 2), ..., Ok(cn - 2) in that order and then nothing; made with   *)
(* an end value it yields nothing at all.                                  *)
(***************************************************************************)
IsEndValue(v) == v <= 1 \/ v >= ChainEndMin

\* c is a chain of the FAT: every entry links to the next cluster of c and
\* the last one holds an end value
Linked(c) ==
    /\ \A i \in 1..Len(c) : ~IsEndValue(c[i])
    /\ \A i \in 1..(Len(c) - 1) : FatEntry(c[i]) = c[i + 1]
    /\ Len(c) > 0 => IsEndValue(FatEntry(c[Len(c)]))

\* the cluster sequences that start with c1 and are as long as a chain of
\* the fixtures can be
ChainCandidates(c1) ==
    { <<c1>> \o t : t \in UNION { [1..n -> 2..(3 + MaxChain)] : n \in 0..MaxChain } }

YieldsChain(c) ==
    \A j \in 1..Len(items) :
        items[j] = IF j <= Len(c) THEN [tag |-> "Ok", v |-> c[j] - 2]
                   ELSE [tag |-> "None", v |-> 0]

C3_WalkerYieldsChainInOrder ==
    /\ IsEndValue(walker.seed) => YieldsChain(<<>>)
    /\ \A c \in ChainCandidates(walker.seed) : Linked(c) => YieldsChain(c)

\* a chain of MaxChain clusters walked to its end, and one more call made
C3_Witness ==
    /\ Len(items) = MaxChain + 1
    /\ \A j \in 1..MaxChain : items[j].tag = "Ok"
    /\ items[MaxChain + 1].tag = "None"
    /\ items[1].v > items[2].v

(***************************************************************************)
(* The records of a stat call as its caller reads them from the buffer.    *)
(***************************************************************************)
\* name_length of the record at position pos of the buffer
RecordNameLength(r) == ret.buffer[r.pos + NameLengthOffset + 1]

\* its name: name_length bytes from the start of the name field
RecordName(r) ==
    SubSeq(ret.buffer, r.pos + NameOffset + 1,
           r.pos + NameOffset + RecordNameLength(r))

\* the space the record takes in the buffer
RecordSize(r) == next_multiple_of(NameLengthOffset + RecordNameLength(r), EntryAlign)

\* the 32 bytes of the directory entry at heap offset o
SlotBytes(o) == DsBytes(storage, fs.cluster_heap_offset + o, DirEntrySize)

\* the leading part of a padded field: what is left of the trailing 0x20s
RECURSIVE Unpadded(_)
Unpadded(field) ==
    IF Len(field) = 0 \/ field[Len(field)] # 32 THEN field
    ELSE Unpadded(SubSeq(field, 1, Len(field) - 1))

\* base, or base "." extension, left to right
NaturalShortName(dir_name) ==
    LET base == Unpadded(SubSeq(dir_name, 1, 8))
        ext  == Unpadded(SubSeq(dir_name, 9, 11))
    IN  IF Len(ext) = 0 THEN base ELSE base \o <<46>> \o ext

(***************************************************************************)
(* C4: the name of a record made from a short-name entry alone is the base *)
(* characters in stored order, then '.' and the extension in stored order  *)
(* when there is one, from the first byte of the name field on; its        *)
(* name_length is the number of these bytes.                               *)
(***************************************************************************)
C4_ShortNameInNaturalOrder ==
    (call.op = "stat" /\ ret.result = "Ok")
    => \A k \in 1..Len(ret.records) :
          LET r == ret.records[k]
          IN  (k = Len(ret.records) /\ r.first = r.slot)
              => /\ RecordNameLength(r)
                    = Len(NaturalShortName(DirEntryOf(SlotBytes(r.slot)).dir_name))
                 /\ RecordName(r)
                    = NaturalShortName(DirEntryOf(SlotBytes(r.slot)).dir_name)

\* the code units of a fragment without its trailing 0x0000 / 0xFFFF filler
RECURSIVE Unfilled(_)
Unfilled(units) ==
    IF Len(units) = 0 \/ units[Len(units)] \notin {0, 65535} THEN units
    ELSE Unfilled(SubSeq(units, 1, Len(units) - 1))

\* the string of a long name whose k fragments are stored from heap offset
\* first on: the groups in ascending ordinal order, the highest without filler
RECURSIVE OriginalUnits(_, _)
OriginalUnits(first, k) ==
    IF k = 0 THEN <<>>
    ELSE OriginalUnits(first + DirEntrySize, k - 1)
         \o (IF BitAnd(SlotBytes(first)[1], 64) # 0
              THEN Unfilled(LongNameUnits(SlotBytes(first)))
              ELSE LongNameUnits(SlotBytes(first)))

\* UTF-8 of a string of code units without surrogates
RECURSIVE Utf8(_)
Utf8(units) ==
    IF Len(units) = 0 THEN <<>>
    ELSE encode_utf8(units[1]) \o Utf8(SubSeq(units, 2, Len(units)))

(***************************************************************************)
(* C5: the name of a record made from k >= 1 long-name fragments and their *)
(* short-name entry is the original string in UTF-8: the fragments in      *)
(* ascending ordinal order, each in stored unit order, the filler removed  *)
(* from the highest ordinal only.                                          *)
(***************************************************************************)
C5_LongNameInAscendingOrder ==
    (call.op = "stat" /\ ret.result = "Ok")
    => \A k \in 1..Len(ret.records) :
          LET r == ret.records[k]
          IN  (k = Len(ret.records) /\ r.first # r.slot)
              => RecordName(r)
                 = Utf8(OriginalUnits(r.first, (r.slot - r.first) \div DirEntrySize))

(***************************************************************************)
(* C6: a stat of the root directory with byte_offset past an entry does    *)
(* not emit that entry: every record comes from a slot that does not lie   *)
(* wholly before byte_offset.                                              *)
(***************************************************************************)
C6_StatResumesAtOffset ==
    (call.op = "stat" /\ call.index = 0)
    => \A k \in 1..Len(ret.records) :
          ret.records[k].slot + DirEntrySize > call.offset

\* the sum of the sizes of the first n records
RECURSIVE RecordBytes(_)
RecordBytes(n) ==
    IF n = 0 THEN 0 ELSE RecordBytes(n - 1) + RecordSize(ret.records[n])

(***************************************************************************)
(* C7: a stat that succeeds returns the number of bytes of records it      *)
(* wrote: the sum of the sizes of its records, 0 only when it wrote none.  *)
(***************************************************************************)
C7_StatReturnsBytesWritten ==
    (call.op = "stat" /\ ret.result = "Ok")
    => /\ ret.value = RecordBytes(Len(ret.records))
       /\ ret.value = 0 => Len(ret.records) = 0

(***************************************************************************)
(* C9: a slot of the wrong kind is refused with Index before any data is   *)
(* transferred.  When the entry at the slot has the directory or the       *)
(* volume-label bit, read and write return Index after the load of the     *)
(* entry, their only storage access: the buffer of a read and the storage  *)
(* stay as they were.  When the entry at a slot other than 0 has no        *)
(* directory bit, stat returns Index after that one access and writes no   *)
(* record.                                                                 *)
(***************************************************************************)
C9_WrongKindIsIndexError ==
    [][ (call'.op # "none" /\ call.op = "none" /\ 1 \notin call'.fails)
        => /\ (call'.op \in {"read", "write"} /\ ~IsFileSlot(call'.index))
              => /\ ret'.result = "Err_Index"
                 /\ Len(ret'.log) = 1
                 /\ storage' = storage
                 /\ call'.op = "read" => ret'.buffer = BlankBuffer(call'.len)
           /\ (/\ call'.op = "stat"
               /\ call'.index # 0
               /\ BitAnd(EntryAt(call'.index).dir_attr, 16) = 0)
              => /\ ret'.result = "Err_Index"
                 /\ Len(ret'.log) = 1
                 /\ storage' = storage
                 /\ ret'.records = <<>>
                 /\ ret'.buffer = BlankBuffer(call'.len) ]_vars

\* a write to the slot of the volume label, refused
C9_Witness ==
    /\ call.op = "write"
    /\ call.fails = {}
    /\ EntryAt(call.index).dir_attr = 8
    /\ ret.result = "Err_Index"
    /\ Len(ret.log) = 1

(***************************************************************************)
(* C10: when a storage access of a call fails, the call makes no further   *)
(* access and returns the storage error: whichever access it is, the       *)
(* failed one is the last of the call and the result is the error.         *)
(***************************************************************************)
C10_StorageFailureAborts ==
    call.op # "none"
    => \A n \in call.fails :
          n <= Len(ret.log) => (ret.result = "Err_Storage" /\ Len(ret.log) = n)

(***************************************************************************)
(* C11: no call changes the allocation or the directory structure.  A stat *)
(* or a read leaves the whole image as it was and issues no write; a write *)
(* issues its storage writes, and changes bytes, only inside the clusters  *)
(* of the chain of the file at its slot, so the boot sector, the FAT and   *)
(* every directory entry stay as they were.                                *)
(***************************************************************************)
\* image address a lies in a cluster of the chain
InChain(chain, a) ==
    \E k \in 1..Len(chain) :
        /\ a >= fs.cluster_heap_offset + chain[k] * ClusterSize
        /\ a < fs.cluster_heap_offset + (chain[k] + 1) * ClusterSize

\* the accesses of a call that are writes
Writes(log) == { n \in 1..Len(log) : log[n].kind = "write" }

\* the chain a write to the slot may touch: none when the slot is no file
WritableChain(index) == IF IsFileSlot(index) THEN ChainOfSlot(index) ELSE <<>>

C11_NoStructureChange ==
    [][ (call.op = "none" /\ call'.op # "none")
        => /\ call'.op \in {"stat", "read"}
              => (storage' = storage /\ Writes(ret'.log) = {})
           /\ call'.op = "write"
              => LET chain == WritableChain(call'.index)
                 IN  /\ \A n \in Writes(ret'.log) :
                           \A j \in 0..(ret'.log[n].len - 1) :
                               InChain(chain, ret'.log[n].offset + j)
                     /\ Len(storage') = Len(storage)
                     /\ \A a \in 1..Len(storage) :
                           storage'[a] # storage[a] => InChain(chain, a - 1)
                     /\ \A a \in 1..(fs.cluster_heap_offset + S) :
                           storage'[a] = storage[a] ]_vars

\* a write that changed bytes of the file's second cluster
C11_Witness ==
    /\ call.op = "write"
    /\ ret.result = "Ok"
    /\ IsFileSlot(call.index)
    /\ Len(ChainOfSlot(call.index)) >= 2
    /\ \E n \in 1..Len(ret.log) :
          /\ ret.log[n].kind = "write"
          /\ ret.log[n].len > 0
          /\ ret.log[n].offset
             = fs.cluster_heap_offset + ChainOfSlot(call.index)[2] * ClusterSize

(***************************************************************************)
(* C12: new returns Inconsistent, and no server, for a boot sector whose   *)
(* bytes per sector is none of 512, 1024, 2048, 4096, whose sectors per    *)
(* cluster is no power of two in 1..128, or whose number of FATs is not 1  *)
(* or 2; so a server has bytes_per_cluster_log2 in 9..19, and a call runs  *)
(* only on such a server.                                                  *)
(***************************************************************************)
BadGeometry(bs) ==
    \/ bs.bpb_bytspersec \notin {512, 1024, 2048, 4096}
    \/ bs.bpb_secperclus \notin {1, 2, 4, 8, 16, 32, 64, 128}
    \/ bs.bpb_numfats \notin {1, 2}

C12_BadGeometryIsRejected ==
    /\ (call.op = "new" /\ call.fails = {} /\ BadGeometry(call.boot))
       => (ret.result = "Err_Inconsistent" /\ fs = NoFs)
    /\ (call.op = "new" /\ ret.result # "Ok") => fs = NoFs
    /\ fs # NoFs => fs.bytes_per_cluster_log2 \in 9..19
    /\ call.op \in {"stat", "read", "write"}
       => (fs # NoFs /\ fs.bytes_per_cluster_log2 \in 9..19)

\* a boot sector with 3 sectors per cluster and all else right, refused
C12_Witness ==
    /\ call.op = "new"
    /\ call.fails = {}
    /\ call.boot.bpb_bytspersec = 512
    /\ call.boot.bpb_secperclus = 3
    /\ call.boot.bpb_numfats = 1
    /\ call.boot.bpb_rootentcnt = 0
    /\ ret.result = "Err_Inconsistent"
    /\ fs = NoFs

(***************************************************************************)
(* C20: new refuses with Inconsistent a boot sector whose root directory   *)
(* length in bytes (root entry count * 32) is no whole multiple of the     *)
(* bytes per sector, and does not refuse one whose length is a whole       *)
(* multiple (0 included) and whose geometry is otherwise right.            *)
(***************************************************************************)
C20_RootLengthIsSectorMultiple ==
    (call.op = "new" /\ call.fails = {} /\ ~BadGeometry(call.boot))
    => LET length == call.boot.bpb_rootentcnt * DirEntrySize
       IN  IF length % call.boot.bpb_bytspersec # 0
           THEN ret.result = "Err_Inconsistent"
           ELSE ret.result = "Ok"

\* the FAT length new has to take: the 16-bit field when it is nonzero
ExactFatLength(bs) ==
    IF bs.bpb_fatsz16 # 0 THEN ToLE(bs.bpb_fatsz16, 8)
    ELSE bs.bpb_fatsz32 \o <<0, 0, 0, 0>>

\* (reserved + FAT length * FATs + root entries * 32 / bytes per sector)
\* * bytes per sector, in exact arithmetic
ExactHeapOffset(bs) ==
    MulW(AddW(AddW(ToLE(bs.bpb_rsvdseccnt, 8),
                   MulW(ExactFatLength(bs), bs.bpb_numfats)),
              ToLE((bs.bpb_rootentcnt * DirEntrySize) \div bs.bpb_bytspersec, 8)),
         bs.bpb_bytspersec)

(***************************************************************************)
(* C21: new does not abort, and the geometry of every server it returns is *)
(* the exact one: bytes_per_cluster_log2 = log2(bytes per sector) +        *)
(* log2(sectors per cluster), fat_offset = reserved sectors * bytes per    *)
(* sector, cluster_heap_offset = (reserved + FAT length * FATs + root      *)
(* entries * 32 / bytes per sector) * bytes per sector, without 32-bit     *)
(* wrap-around.                                                            *)
(***************************************************************************)
C21_GeometryIsExact ==
    call.op = "new"
    => /\ ret.result # "panic"
       /\ ret.result = "Ok"
          => /\ Pow2(ret.value.bytes_per_cluster_log2)
                = call.boot.bpb_bytspersec * call.boot.bpb_secperclus
             /\ ret.value.fat_offset
                = MulW(ToLE(call.boot.bpb_rsvdseccnt, 8), call.boot.bpb_bytspersec)
             /\ ret.value.cluster_heap_offset = ExactHeapOffset(call.boot)

(***************************************************************************)
(* C22: when the storage read of the FAT entry fails, next yields the      *)
(* error as its item (not nothing) and leaves the walker's cluster as it   *)
(* was; when the walker's cluster ends the chain no read is made and next  *)
(* yields nothing.                                                         *)
(***************************************************************************)
C22_FailedReadIsAnItem ==
    [][call'.op = "next"
       => IF ChainEnds(walker.entry)
          THEN items' = Append(items, [tag |-> "None", v |-> 0]) /\ walker' = walker
          ELSE call'.fails = {1}
               => /\ items' = Append(items, [tag |-> "Err", v |-> 0])
                  /\ walker' = walker]_vars

\* a failed read in the middle of a chain, and the same cluster yielded by
\* the call after it
C22_Witness ==
    /\ call.op = "next"
    /\ Len(items) = 3
    /\ items[1].tag = "Ok"
    /\ items[2].tag = "Err"
    /\ items[3] = [tag |-> "Ok", v |-> FatEntry(items[1].v + 2) - 2]

\* the chain that starts at cluster number c reaches an end value
RECURSIVE ChainEndsFrom(_, _)
ChainEndsFrom(c, fuel) ==
    IF IsEndValue(c) THEN TRUE
    ELSE IF fuel = 0 THEN FALSE
    ELSE ChainEndsFrom(FatEntry(c), fuel - 1)

Acyclic == ChainEndsFrom(walker.seed, 2 + MaxChain)

(***************************************************************************)
(* C23: with a storage that always answers, a call of stat, read or write  *)
(* that walks a chain which reaches an end value comes to its end (it      *)
(* returns, or aborts) after finitely many steps; read and write come to   *)
(* their end on a looping chain too; a ClusterChain made with a cluster of *)
(* a loop never yields None.                                               *)
(***************************************************************************)
C23_WalksEnd ==
    /\ (Running /\ Acyclic) ~> (call.phase = "done")
    /\ (Running /\ call.op \in {"read", "write"}) ~> (call.phase = "done")
    /\ [](call.phase = "chain" /\ ~Acyclic
          => \A i \in 1..Len(items) : items[i].tag # "None")

\* a read of more than a cluster that has gone round a looping chain and
\* returned
C23_Witness ==
    /\ call.op = "read"
    /\ call.phase = "done"
    /\ ret.result = "Ok"
    /\ ~Acyclic
    /\ call.len > S
    /\ call.left = 0

\* the data accesses of the call: all accesses but the directory-entry load
\* and the FAT lookups
DataAccesses ==
    { n \in 2..Len(ret.log) : ret.log[n].offset >= fs.cluster_heap_offset }

(***************************************************************************)
(* C24: every data access of read or write covers a range [a, a + len)     *)
(* inside one cluster of the file's chain: there is a heap index c of the  *)
(* chain with cluster_heap_offset + c * S <= a and                         *)
(* a + len <= cluster_heap_offset + (c + 1) * S.                           *)
(***************************************************************************)
C24_AccessStaysInOneCluster ==
    call.op \in {"read", "write"}
    => LET chain == WritableChain(call.index)
       IN  \A n \in DataAccesses :
              \E k \in 1..Len(chain) :
                 /\ fs.cluster_heap_offset + chain[k] * ClusterSize
                    <= ret.log[n].offset
                 /\ ret.log[n].offset + ret.log[n].len
                    <= fs.cluster_heap_offset + (chain[k] + 1) * ClusterSize

\* a transfer of more than a cluster: a data access of a whole cluster and
\* one of the rest, in another cluster
C24_Witness ==
    /\ call.op \in {"read", "write"}
    /\ call.len > ClusterSize
    /\ \E n, m \in DataAccesses :
          /\ ret.log[n].len = ClusterSize
          /\ ret.log[m].len = call.len - ClusterSize
          /\ ret.log[m].offset # ret.log[n].offset

(***************************************************************************)
(* C13: when the rest of out cannot hold the next record, stat stops and   *)
(* returns Ok: too little room gives no error and no abort, whatever the   *)
(* names are, and stat writes nothing beyond the end of out.  On the       *)
(* well-formed directory fixtures, read without storage failures, a stat   *)
(* of a directory therefore returns Ok and out keeps its length.           *)
(***************************************************************************)
C13_FullBufferStopsWithOk ==
    (/\ call.op = "stat"
     /\ call.fails = {}
     /\ call.index = 0 \/ BitAnd(EntryAt(call.index).dir_attr, 16) # 0)
    => /\ ret.result = "Ok"
       /\ Len(ret.buffer) = call.len

\* the index and the data_length bytes of the record at position pos
RecordIndex(r) == FromLE(SubSeq(ret.buffer, r.pos + 1, r.pos + 8))
RecordDataLength(r) == SubSeq(ret.buffer, r.pos + 9, r.pos + 16)

\* the number of fragments the entry at heap offset o announces: 0 when it
\* is a short-name entry
FragmentCount(o) ==
    IF SlotBytes(o)[12] = AttrLongName THEN BitAnd(SlotBytes(o)[1], 63) ELSE 0

IsDirSlot(index) == index = 0 \/ BitAnd(EntryAt(index).dir_attr, 16) # 0

\* the heap indices of the directory's chain
DirChain(index) ==
    FatChain(IF index = 0 THEN fs.first_cluster_of_root_directory
             ELSE FirstCluster(EntryAt(index)), 1 + MaxChain)

\* the slot offsets of the clusters of a chain, in chain order
SlotOffsets(chain) ==
    LET perCluster == ClusterSize \div DirEntrySize
    IN  [n \in 1..(Len(chain) * perCluster) |->
            chain[((n - 1) \div perCluster) + 1] * ClusterSize
            + DirEntrySize * ((n - 1) % perCluster)]

IsEntryRead(a) ==
    a.kind = "read" /\ a.len = DirEntrySize /\ a.offset >= fs.cluster_heap_offset

\* the heap offsets of the slots the call inspected, in order: its reads of
\* directory entries, but for the load of the entry at its own slot
InspectedSlots ==
    LET reads == SelectSeq(ret.log, IsEntryRead)
        slots == IF call.index = 0 THEN reads ELSE Tail(reads)
    IN  [n \in 1..Len(slots) |-> slots[n].offset - fs.cluster_heap_offset]

(***************************************************************************)
(* C15: the slots stat inspects are, cluster after cluster of the          *)
(* directory's chain, the S/32 offsets c*S + 32*j, j = 0 .. S/32 - 1, in   *)
(* this order: what a call inspected is a prefix of that sequence, for     *)
(* every heap index c.                                                     *)
(***************************************************************************)
C15_SlotsLieInTheChain ==
    (call.op = "stat" /\ IsDirSlot(call.index))
    => LET expected == SlotOffsets(DirChain(call.index))
       IN  /\ Len(InspectedSlots) <= Len(expected)
           /\ \A n \in 1..Len(InspectedSlots) : InspectedSlots[n] = expected[n]

(***************************************************************************)
(* C16: records do not overlap.  Each starts at a multiple of 8 and takes  *)
(* 17 bytes and its name_length name bytes; the next record starts at or   *)
(* after the end of its last name byte.                                    *)
(***************************************************************************)
C16_RecordsDoNotOverlap ==
    call.op = "stat"
    => /\ \A k \in 1..Len(ret.records) : ret.records[k].pos % EntryAlign = 0
       /\ \A k \in 1..(Len(ret.records) - 1) :
             ret.records[k + 1].pos
             >= ret.records[k].pos + NameOffset + RecordNameLength(ret.records[k])

\* the entry at heap offset o is a live short-name entry
IsLiveShortEntry(o) ==
    /\ SlotBytes(o)[1] \notin {0, 229}
    /\ SlotBytes(o)[12] # AttrLongName

(***************************************************************************)
(* C17: the slot after the fragment with ordinal 1 must be a short-name    *)
(* entry: stat emits no record that takes its size and its index from a    *)
(* fragment, an end marker or a deleted entry found there.                 *)
(***************************************************************************)
C17_FragmentsEndAtShortEntry ==
    call.op = "stat"
    => \A k \in 1..Len(ret.records) :
          ret.records[k].first # ret.records[k].slot
          => IsLiveShortEntry(ret.records[k].slot)

\* the directory entry at heap offset o is a long-name fragment that opens a
\* malformed sequence: it lacks the 'last' bit, or one of the count - 1
\* slots after it is not a fragment or does not carry the ordinal
\* count - j
MalformedAt(o) ==
    LET count == BitAnd(SlotBytes(o)[1], 63)
    IN  /\ SlotBytes(o)[1] \notin {0, 229}
        /\ SlotBytes(o)[12] = AttrLongName
        /\ \/ BitAnd(SlotBytes(o)[1], 64) = 0
           \/ \E j \in 1..(count - 1) :
                 \/ SlotBytes(o + j * DirEntrySize)[12] # AttrLongName
                 \/ SlotBytes(o + j * DirEntrySize)[1] # count - j

(***************************************************************************)
(* C18: malformed long-name sequencing is answered with the Inconsistent   *)
(* error.  When the first entry of the root directory opens a malformed    *)
(* sequence, no storage access fails, and out has room for the record (it  *)
(* holds an Entry and, where the 'last' bit is set, 13 name bytes for      *)
(* each announced fragment), stat of the root returns Err(Inconsistent).   *)
(***************************************************************************)
C18_MalformedSequenceIsInconsistent ==
    (/\ call.op = "stat"
     /\ call.index = 0
     /\ call.fails = {}
     /\ MalformedAt(0)
     /\ EntryCastOk(call.len)
     /\ \/ BitAnd(SlotBytes(0)[1], 64) = 0
        \/ call.len - NameOffset >= 13 * BitAnd(SlotBytes(0)[1], 63))
    => ret.result = "Err_Inconsistent"

(***************************************************************************)
(* C19: no record comes from a deleted slot or from a slot at or after the *)
(* first end marker of the directory: the slot of every record is a live   *)
(* short-name entry and no slot of the directory before it is an end       *)
(* marker.                                                                 *)
(***************************************************************************)
C19_OnlyLiveEntriesBeforeEnd ==
    (call.op = "stat" /\ IsDirSlot(call.index))
    => \A k \in 1..Len(ret.records) :
          /\ IsLiveShortEntry(ret.records[k].slot)
          /\ \A n \in 1..Len(SlotOffsets(DirChain(call.index))) :
                SlotOffsets(DirChain(call.index))[n] <= ret.records[k].slot
                => SlotBytes(SlotOffsets(DirChain(call.index))[n])[1] # 0

(***************************************************************************)
(* The supervisor's memory bookkeeping.                                    *)
(*                                                                         *)
(* ObjectPool (src/supervisor/src/memory/object.rs) is an array of 32      *)
(* optional objects.  SystemMemory (src/supervisor/src/memory/system.rs)   *)
(* keeps the free chunks {addr, size} in a red-black tree keyed by addr;   *)
(* the tree is modelled by the sequence of its chunks in key order, and a  *)
(* cursor by an index into it, 0 for the null cursor.  The chunks live in  *)
(* SYSTEM_MEMORY_FREE_POOL.                                                *)
(***************************************************************************)
\* ObjectPool::allocate, pool.iter_mut().find(|entry| entry.is_none()): the
\* first slot that is None, 0 where find returns None (the unwrap aborts).
FindNone(slots) ==
    IF \E slot \in 1..PoolSize : ~slots[slot]
    THEN CHOOSE slot \in 1..PoolSize :
            /\ ~slots[slot]
            /\ \A before \in 1..(slot - 1) : slots[before]
    ELSE 0

\* ObjectPool::allocate: *entry = Some(value).
ObjectPoolAllocate(slots) ==
    IF FindNone(slots) = 0
    THEN [result |-> "panic", pool |-> slots]
    ELSE [result |-> "Ok", pool |-> [slots EXCEPT ![FindNone(slots)] = TRUE]]

\* ObjectPool::deallocate: the body is empty, the slot stays Some.
ObjectPoolDeallocate(slots) == slots

\* RBTree::upper_bound_mut(Bound::Included(&addr)): the cursor at the last
\* chunk whose key is at most addr, the null cursor when there is none.
UpperBound(tree, addr) ==
    IF \E i \in 1..Len(tree) : tree[i].addr <= addr
    THEN CHOOSE i \in 1..Len(tree) :
            /\ tree[i].addr <= addr
            /\ \A j \in (i + 1)..Len(tree) : tree[j].addr > addr
    ELSE 0

\* RBTree::lower_bound_mut(Bound::Unbounded): the cursor at the first chunk
\* of the tree, the null cursor when the tree is empty.
LowerBoundUnbounded(tree) == IF Len(tree) = 0 THEN 0 ELSE 1

\* CursorMut::remove at cursor i; the cursor then stands at the next chunk,
\* which has index i again (Len + 1 = past the end = the null cursor).
CursorRemove(tree, i) ==
    [j \in 1..(Len(tree) - 1) |-> IF j < i THEN tree[j] ELSE tree[j + 1]]

\* CursorMut::insert_before at cursor i (i = Len + 1 for the null cursor,
\* which inserts at the end); the cursor then has index i + 1.
InsertBefore(tree, i, chunk) ==
    [j \in 1..(Len(tree) + 1) |->
        IF j < i THEN tree[j] ELSE IF j = i THEN chunk ELSE tree[j - 1]]

\* CursorMut::insert: the chunk is put where its key belongs, whatever the
\* cursor.
InsertByKey(tree, chunk) ==
    InsertBefore(tree, 1 + Cardinality({i \in 1..Len(tree) : tree[i].addr <= chunk.addr}), chunk)

\* CursorMut::move_prev from cursor i: the chunk before, the null cursor
\* from the first chunk.
MovePrev(tree, i) == i - 1

\* A test that accepts every chunk.
CoversAnything(chunk, addr, size) == TRUE

\* The test of allocate(Some(addr), size) on the chunk under the cursor:
\* chunk.addr + chunk.size >= addr + size.
Covers(chunk, addr, size) == chunk.addr + chunk.size >= addr + size

\* "trim after" of allocate(Some(addr), size): the chunk loses size bytes;
\* what is left goes back before the cursor at addr + size, and a chunk
\* with nothing left goes to the pool's deallocate.
TrimAfter(tree, slots, i, chunk, addr, size) ==
    IF chunk.size - size # 0
    THEN [result |-> "Some", value |-> addr,
          free |-> InsertBefore(tree, i, [addr |-> addr + size, size |-> chunk.size - size]),
          pool |-> slots]
    ELSE [result |-> "Some", value |-> addr, free |-> tree,
          pool |-> ObjectPoolDeallocate(slots)]

\* SystemMemory::allocate(Some(addr), size).
AllocateAt(tree, slots, addr, size) ==
    LET i == UpperBound(tree, addr)
    IN  IF i = 0
        THEN [result |-> "None", value |-> 0, free |-> tree, pool |-> slots]
        ELSE
        LET chunk == tree[i]
            rest == CursorRemove(tree, i)
            before == [addr |-> chunk.addr, size |-> addr - chunk.addr]
            chunk_size == chunk.size - before.size
            made == ObjectPoolAllocate(slots)
        IN  IF ~Covers(chunk, addr, size)
            THEN [result |-> "None", value |-> 0, free |-> tree, pool |-> slots]
            ELSE IF chunk.addr # addr
            THEN IF made.result = "panic"
                 THEN [result |-> "panic", value |-> 0,
                       free |-> InsertBefore(rest, i, before), pool |-> slots]
                 ELSE TrimAfter(InsertBefore(rest, i, before), made.pool, i + 1,
                                [addr |-> addr + size, size |-> chunk_size], addr, size)
            ELSE TrimAfter(rest, slots, i, chunk, addr, size)

\* The while loop of allocate(None, size) with the cursor at i: the chunk
\* under the cursor is taken when it is large enough (the region is its
\* last size bytes), otherwise the cursor moves to the previous chunk; the
\* loop ends at the null cursor.
RECURSIVE AllocateLoop(_, _, _, _)
AllocateLoop(tree, slots, i, size) ==
    IF i < 1 \/ i > Len(tree)
    THEN [result |-> "None", value |-> 0, free |-> tree, pool |-> slots]
    ELSE IF tree[i].size >= size
    THEN LET left == tree[i].size - size
             rest == CursorRemove(tree, i)
         IN  IF left # 0
             THEN [result |-> "Some", value |-> tree[i].addr + left,
                   free |-> InsertBefore(rest, i, [tree[i] EXCEPT !.size = left]),
                   pool |-> slots]
             ELSE [result |-> "Some", value |-> tree[i].addr + left,
                   free |-> rest, pool |-> ObjectPoolDeallocate(slots)]
    ELSE AllocateLoop(tree, slots, MovePrev(tree, i), size)

\* SystemMemory::allocate(None, size).
AllocateAny(tree, slots, size) ==
    AllocateLoop(tree, slots, LowerBoundUnbounded(tree), size)

\* SystemMemory::deallocate(addr, size): the region joins the chunk that
\* ends at addr (and then the chunk that starts where the joined one ends,
\* whose object is not given back to the pool), or the chunk that starts
\* at addr + size, or becomes a chunk of its own, made in the pool.
Deallocate(tree, slots, addr, size) ==
    LET i == UpperBound(tree, addr)
        made == ObjectPoolAllocate(slots)
    IN  IF i # 0 /\ tree[i].addr + tree[i].size = addr
        THEN LET chunk == [tree[i] EXCEPT !.size = @ + size]
                 rest == CursorRemove(tree, i)
             IN  IF i <= Len(rest) /\ rest[i].addr = chunk.addr + chunk.size
                 THEN [result |-> "Ok", pool |-> slots,
                       free |-> InsertBefore(CursorRemove(rest, i), i,
                                             [chunk EXCEPT !.size = @ + rest[i].size])]
                 ELSE [result |-> "Ok", pool |-> slots,
                       free |-> InsertBefore(rest, i, chunk)]
        ELSE IF i + 1 <= Len(tree) /\ tree[i + 1].addr = addr + size
        THEN [result |-> "Ok", pool |-> slots,
              free |-> InsertBefore(CursorRemove(tree, i + 1), i + 1,
                                    [addr |-> addr, size |-> tree[i + 1].size + size])]
        ELSE IF made.result = "panic"
        THEN [result |-> "panic", pool |-> slots, free |-> tree]
        ELSE [result |-> "Ok", pool |-> made.pool,
              free |-> InsertByKey(tree, [addr |-> addr, size |-> size])]

\* The byte addresses of a region, and of all the chunks of a tree.
Region(addr, size) == addr..(addr + size - 1)

FreeAddrs(tree) == UNION {Region(tree[i].addr, tree[i].size) : i \in 1..Len(tree)}

Addrs == 0..(MemSize - 1)

(***************************************************************************)
(* Calls on SystemMemory.  Its user has all the memory at first; it gives  *)
(* memory it has to the bookkeeping with deallocate                        *)
(* (src/supervisor/src/main.rs gives it the usable regions of the memory   *)
(* map), so the regions given are disjoint from each other and from what   *)
(* is free, and takes memory with allocate.  A call that aborts halts the  *)
(* supervisor: no call follows it.                                         *)
(***************************************************************************)
MemDeallocate ==
    /\ mcall.result # "panic"
    /\ \E addr \in Addrs : \E size \in 1..(MemSize - addr) :
        /\ Region(addr, size) \subseteq held
        /\ \E r \in {Deallocate(free, pool, addr, size)} :
               /\ free' = r.free
               /\ pool' = r.pool
               /\ held' = IF r.result = "Ok" THEN held \ Region(addr, size) ELSE held
               /\ mcall' = [op |-> "deallocate", some |-> TRUE, addr |-> addr, size |-> size,
                            result |-> r.result, value |-> 0]
    /\ UNCHANGED <<storage, fs, call, ret, lastWrite, nwrites, walker, items, live>>

MemAllocateAt ==
    /\ mcall.result # "panic"
    /\ \E addr \in Addrs : \E size \in 1..MemSize :
        \E r \in {AllocateAt(free, pool, addr, size)} :
            /\ free' = r.free
            /\ pool' = r.pool
            /\ held' = IF r.result = "Some" THEN held \cup Region(r.value, size) ELSE held
            /\ mcall' = [op |-> "allocate", some |-> TRUE, addr |-> addr, size |-> size,
                         result |-> r.result, value |-> r.value]
    /\ UNCHANGED <<storage, fs, call, ret, lastWrite, nwrites, walker, items, live>>

MemAllocateAny ==
    /\ mcall.result # "panic"
    /\ \E size \in 1..MemSize :
        \E r \in {AllocateAny(free, pool, size)} :
            /\ free' = r.free
            /\ pool' = r.pool
            /\ held' = IF r.result = "Some" THEN held \cup Region(r.value, size) ELSE held
            /\ mcall' = [op |-> "allocate", some |-> FALSE, addr |-> 0, size |-> size,
                         result |-> r.result, value |-> r.value]
    /\ UNCHANGED <<storage, fs, call, ret, lastWrite, nwrites, walker, items, live>>

InitMemory ==
    /\ storage = <<>>
    /\ fs = FixtureFs
    /\ call = NoCall
    /\ ret = NoRet
    /\ lastWrite = NoWrite
    /\ nwrites = 0
    /\ walker = NoWalker
    /\ items = <<>>
    /\ free = SystemMemoryNew
    /\ pool = ObjectPoolNew
    /\ live = 0
    /\ held = Addrs
    /\ mcall = NoMemCall

NextMemory == MemDeallocate \/ MemAllocateAt \/ MemAllocateAny

SpecMemory == InitMemory /\ [][NextMemory]_vars

(***************************************************************************)
(* Calls on an ObjectPool by a caller that never uses more than PoolSize   *)
(* objects at the same time: it allocates only while it uses fewer, and    *)
(* deallocates objects it uses.                                            *)
(***************************************************************************)
PoolAllocate ==
    /\ mcall.result # "panic"
    /\ live < PoolSize
    /\ LET r == ObjectPoolAllocate(pool)
       IN  /\ pool' = r.pool
           /\ live' = IF r.result = "Ok" THEN live + 1 ELSE live
           /\ mcall' = [NoMemCall EXCEPT !.op = "pool_allocate", !.result = r.result]
    /\ UNCHANGED <<storage, fs, call, ret, lastWrite, nwrites, walker, items, free, held>>

PoolDeallocate ==
    /\ mcall.result # "panic"
    /\ live > 0
    /\ pool' = ObjectPoolDeallocate(pool)
    /\ live' = live - 1
    /\ mcall' = [NoMemCall EXCEPT !.op = "pool_deallocate", !.result = "Ok"]
    /\ UNCHANGED <<storage, fs, call, ret, lastWrite, nwrites, walker, items, free, held>>

InitPool == InitMemory

NextPool == PoolAllocate \/ PoolDeallocate

SpecPool == InitPool /\ [][NextPool]_vars

(***************************************************************************)
(* C25: SystemMemory never hands out memory twice.  Every region that      *)
(* allocate returns was entirely free before the call, is what the call    *)
(* takes out of the free set (exactly its size bytes, at the address asked *)
(* for when one was given), and overlaps nothing that is handed out;       *)
(* deallocate adds exactly its region to the free set; a call that returns *)
(* None changes nothing; and at all times the free chunks are in address   *)
(* order and disjoint from each other and from everything handed out.      *)
(***************************************************************************)
ChunksDisjoint(tree) ==
    \A i \in 1..Len(tree) : \A j \in (i + 1)..Len(tree) :
        tree[i].addr + tree[i].size <= tree[j].addr

C25_NeverHandsOutMemoryTwice ==
    [][LET region == Region(mcall'.value, mcall'.size)
       IN  /\ (mcall'.op = "allocate" /\ mcall'.result = "Some")
              => /\ region \subseteq FreeAddrs(free)
                 /\ FreeAddrs(free') = FreeAddrs(free) \ region
                 /\ region \cap held = {}
                 /\ mcall'.some => mcall'.value = mcall'.addr
           /\ (mcall'.op = "allocate" /\ mcall'.result = "None") => free' = free
           /\ (mcall'.op = "deallocate" /\ mcall'.result = "Ok")
              => FreeAddrs(free') = FreeAddrs(free) \cup Region(mcall'.addr, mcall'.size)
           /\ held' \cap FreeAddrs(free') = {}
           /\ ChunksDisjoint(free')]_vars

\* allocate(Some(addr), size) has cut a region out of the middle of a chunk
\* while its user had other memory.
C25_Witness ==
    /\ mcall.op = "allocate"
    /\ mcall.some
    /\ mcall.result = "Some"
    /\ Cardinality(held) > mcall.size
    /\ \E i \in 1..Len(free) : free[i].addr + free[i].size = mcall.value
    /\ \E i \in 1..Len(free) : free[i].addr = mcall.value + mcall.size

(***************************************************************************)
(* C26: ObjectPool::deallocate makes the slot available again: a caller    *)
(* that never uses more than 32 objects at the same time never sees        *)
(* allocate abort, however many allocations it has made.                   *)
(***************************************************************************)
C26_AllocateFindsAFreeSlot ==
    mcall.op = "pool_allocate" => mcall.result # "panic"

(***************************************************************************)
(* C29: allocate(None, size) is first-fit over the whole free set: it      *)
(* returns None only when no free chunk has size >= size, and otherwise    *)
(* the region it returns lies in the lowest-addressed chunk that is large  *)
(* enough.                                                                 *)
(***************************************************************************)
C29_FirstFitOverTheFreeSet ==
    [][(mcall'.op = "allocate" /\ ~mcall'.some /\ mcall'.result # "panic"
        /\ \E i \in 1..Len(free) : free[i].size >= mcall'.size)
       => /\ mcall'.result = "Some"
          /\ LET first == CHOOSE i \in 1..Len(free) :
                            /\ free[i].size >= mcall'.size
                            /\ \A j \in 1..(i - 1) : free[j].size < mcall'.size
             IN  Region(mcall'.value, mcall'.size)
                    \subseteq Region(free[first].addr, free[first].size)]_vars

(***************************************************************************)
(* C27: stat never aborts: whatever the directory holds and whatever the   *)
(* length of out, stat returns success or an error value.                  *)
(***************************************************************************)
C27_StatNeverAborts ==
    call.op = "stat" => ret.result # "panic"

(***************************************************************************)
(* C28: no record emitted by stat has index 0, the designator of the root  *)
(* directory.                                                              *)
(***************************************************************************)
C28_NoRecordHasIndexZero ==
    call.op = "stat"
    => \A k \in 1..Len(ret.records) :
          FromLE(SubSeq(ret.buffer, ret.records[k].pos + 1, ret.records[k].pos + 8)) # 0

(***************************************************************************)
(* stat of root directories that hold one long name of up to MaxNameFrags  *)
(* full fragments and its short-name entry, by a server built with and     *)
(* without overflow checks.                                                *)
(***************************************************************************)
\* code units of one, two and three UTF-8 bytes
NameUnitKinds == {97, 233, 8364}

NameRoots ==
    { LongSet([i \in 1..(13 * k) |-> unit]) \o PlainEntry :
        k \in 1..MaxNameFrags, unit \in NameUnitKinds }

NameOutLengths == {128, 320, 512}

InitNames ==
    /\ \E root \in NameRoots : storage = StatImage(root)
    /\ \E overflow_checks \in BOOLEAN : fs = FsOf(New(FixtureBoot, overflow_checks).fs)
    /\ call = NoCall
    /\ ret = NoRet
    /\ lastWrite = NoWrite
    /\ nwrites = 0
    /\ walker = NoWalker
    /\ items = <<>>
    /\ MemoryNew

StatNames == \E len \in NameOutLengths : StatCall(0, 0, len, {})

NextNames == StatNames \/ Return

SpecNames == InitNames /\ [][NextNames]_vars

(***************************************************************************)
(* C30: the name_length of every record is the number of UTF-8 name bytes  *)
(* written for its entry (for a long name, the UTF-8 length of its code    *)
(* units), and stat does not abort on a long name that out has room for:   *)
(* the 8-bit count neither wraps nor overflows.                            *)
(***************************************************************************)
NameBytes(r) ==
    IF r.first = r.slot
    THEN Len(NaturalShortName(DirEntryOf(SlotBytes(r.slot)).dir_name))
    ELSE Len(Utf8(OriginalUnits(r.first, (r.slot - r.first) \div DirEntrySize)))

C30_NameLengthIsExact ==
    call.op = "stat"
    => /\ \A k \in 1..Len(ret.records) :
             RecordNameLength(ret.records[k]) = NameBytes(ret.records[k])
       /\ (/\ call.index = 0
           /\ call.fails = {}
           /\ \E root \in NameRoots : storage = StatImage(root)
           /\ call.len >= NameOffset + EntryAlign
                           + Len(Utf8(OriginalUnits(0, BitAnd(SlotBytes(0)[1], 63)))))
          => ret.result # "panic"

====
